---- MODULE Spec2Model ----
(***************************************************************************)
(* AST-to-CFG lowering of sorbet (cfg/builder/builder_walk.cc).            *)
(*                                                                         *)
(* CFGBuilder::walk is recursive.  It is modelled as a machine with an     *)
(* explicit call stack: every frame is one activation of walk, `pc` is the *)
(* place in the typecase arm where the activation waits for the recursive  *)
(* call it made, and `ret` carries the block the last completed activation *)
(* returned.  The tree being lowered is an input: the variant of a node is *)
(* chosen when walk dispatches on it, so the behaviours of the model are   *)
(* the lowerings of all trees with at most MaxNodes non-empty nodes.       *)
(***************************************************************************)
EXTENDS Integers, Sequences, FiniteSets, TLC

VARIABLES
    blocks,            \* cctx.inWhat.basicBlocks: block id -> BasicBlock
    stack,             \* activations of walk, innermost last
    ret,               \* block returned by the last completed activation
    errors,            \* the error queue of cctx.ctx.state, in order
    temporaryCounter,  \* CFGContext::temporaryCounter
    allocated,         \* the locals newTemporary has returned, in call order
    aliases,           \* cctx.aliases: symbol -> alias local
    discoveredUndeclaredFields,  \* cctx.discoveredUndeclaredFields: name -> local
    resolutions,       \* the symbols and names resolved to a local so far, in order
    maxRubyBlockId,    \* cctx.inWhat.maxRubyBlockId
    nodes,             \* non-empty tree nodes dispatched so far
    locCounter         \* source locations handed out so far

\* The state of global2Local and unresolvedIdent2Local.
idents == <<aliases, discoveredUndeclaredFields, resolutions>>

vars == <<blocks, stack, ret, errors, temporaryCounter, allocated, maxRubyBlockId, nodes,
          locCounter, idents>>

\* Largest number of non-empty nodes in a lowered tree.
MaxNodes == 3

(***************************************************************************)
(* Locals, links, instructions                                             *)
(***************************************************************************)
LocalVariable(name, unique) == [name |-> name, unique |-> unique]

\* BlockExit::cond before any jump was recorded (isCondSet() is false).
condUnset == LocalVariable("<unset>", -1)

noVariable == LocalVariable("<none>", 0)

selfVariable == LocalVariable("<self>", 0)

blockCall == LocalVariable("<blockCall>", 0)

nullptr == 0

nullLink == [fun |-> "<null>", rubyBlockId |-> -1]

noLoc == 0

\* One entry of BasicBlock::exprs: destination, location, instruction.
Binding(dest, loc, isSynthetic, inst) ==
    [dest |-> dest, loc |-> loc, isSynthetic |-> isSynthetic, inst |-> inst]

(***************************************************************************)
(* CFG container                                                           *)
(***************************************************************************)
BasicBlock(id, loops, rubyBlockId) ==
    [id |-> id, loops |-> loops, rubyBlockId |-> rubyBlockId, exprs |-> <<>>,
     backEdges |-> <<>>, flags |-> 0,
     bexit |-> [cond |-> condUnset, thenb |-> nullptr, elseb |-> nullptr, loc |-> noLoc],
     bexitSets |-> 0]

entryBlock == 1

deadBlock == 2

WAS_JUMP_DESTINATION == 1

freshBlock(bs, loops, rubyBlockId) == Append(bs, BasicBlock(Len(bs) + 1, loops, rubyBlockId))

isCondSet(b) == b.bexit.cond # condUnset

\* flags |= WAS_JUMP_DESTINATION (the only flag the walker touches)
setFlag(bs, b) == [bs EXCEPT ![b].flags = WAS_JUMP_DESTINATION]

\* from->bexit = {cond, thenb, elseb, loc}; bexitSets counts the writes.
setExit(bs, from, cond, thenb, elseb, loc) ==
    [bs EXCEPT ![from].bexit = [cond |-> cond, thenb |-> thenb, elseb |-> elseb, loc |-> loc],
               ![from].bexitSets = @ + 1]

addBackEdge(bs, to, from) == [bs EXCEPT ![to].backEdges = Append(@, from)]

\* conditionalJump that records the source with the then-successor only.
conditionalJumpOneBackEdge(bs, from, cond, thenb, elseb, loc) ==
    LET flagged == setFlag(setFlag(bs, thenb), elseb)
    IN  IF from # deadBlock
        THEN addBackEdge(setExit(flagged, from, cond, thenb, elseb, loc), thenb, from)
        ELSE flagged

conditionalJump(bs, from, cond, thenb, elseb, loc) ==
    LET flagged == setFlag(setFlag(bs, thenb), elseb)
    IN  IF from # deadBlock
        THEN addBackEdge(addBackEdge(setExit(flagged, from, cond, thenb, elseb, loc),
                                     thenb, from),
                         elseb, from)
        ELSE flagged

\* unconditionalJump without the test for a dead source.
unconditionalJumpUnguarded(bs, from, to, loc) ==
    addBackEdge(setExit(setFlag(bs, to), from, noVariable, to, to, loc), to, from)

unconditionalJump(bs, from, to, loc) ==
    LET flagged == setFlag(bs, to)
    IN  IF from # deadBlock
        THEN addBackEdge(setExit(flagged, from, noVariable, to, to, loc), to, from)
        ELSE flagged

\* jumpToDead without the test for a dead source.
jumpToDeadUnguarded(bs, from, loc) ==
    addBackEdge(setExit(bs, from, noVariable, deadBlock, deadBlock, loc), deadBlock, from)

jumpToDead(bs, from, loc) ==
    IF from # deadBlock
    THEN addBackEdge(setExit(bs, from, noVariable, deadBlock, deadBlock, loc), deadBlock, from)
    ELSE bs

emplace_back(bs, b, dest, loc, inst) ==
    [bs EXCEPT ![b].exprs = Append(@, Binding(dest, loc, FALSE, inst))]

synthesizeExpr(bs, b, dest, loc, inst) ==
    [bs EXCEPT ![b].exprs = Append(@, Binding(dest, loc, TRUE, inst))]

(***************************************************************************)
(* Lowering context                                                        *)
(***************************************************************************)
\* The n-th temporary allocated after the counter stood at `counter`.
newTemporary(counter, name) == LocalVariable(name, counter + 1)

\* Allocated on a counter that each copy of the context holds by value.
AllocatedByValue(temps) ==
    /\ temporaryCounter' = temporaryCounter
    /\ allocated' = allocated \o temps

\* The calls of newTemporary that returned `temps`, in this order, have been
\* made: each has incremented the counter shared by all copies of the context.
Allocated(temps) ==
    /\ temporaryCounter' = temporaryCounter + Len(temps)
    /\ allocated' = allocated \o temps

withTarget(cctx, target) == [cctx EXCEPT !.target = target]

withBlockBreakTarget(cctx, blockBreakTarget) == [cctx EXCEPT !.blockBreakTarget = blockBreakTarget]

withLoopScope(cctx, nextScope, breakScope, insideRubyBlock) ==
    [cctx EXCEPT !.nextScope = nextScope, !.breakScope = breakScope,
                 !.isInsideRubyBlock = insideRubyBlock, !.loops = @ + 1]

withSendAndBlockLink(cctx, link) == [cctx EXCEPT !.link = link]

withRubyBlockId(cctx, rubyBlockId) == [cctx EXCEPT !.rubyBlockId = rubyBlockId]

beginError(errs, loc, code) == Append(errs, [loc |-> loc, code |-> code])

(***************************************************************************)
(* Call stack                                                              *)
(***************************************************************************)
Top == stack[Len(stack)]

At(kind, pc) == Len(stack) > 0 /\ Top.kind = kind /\ Top.pc = pc

\* A new activation walk(cctx, what, current); what->loc is `loc`.  `kind` is
\* "Expression" while the variant of `what` is still open, `opt` says whether
\* the tree may have an EmptyTree in this place.
Activation(kind, opt, cctx, current, loc) ==
    [kind |-> kind, opt |-> opt, pc |-> "walk", cctx |-> cctx, current |-> current,
     loc |-> loc, v |-> <<>>]

\* walk is about to dispatch on a node whose variant is open.
Open == Len(stack) > 0 /\ Top.pc = "walk" /\ Top.kind \in {"Expression", "NotSend"}

\* As Open, on a node that may be a Send.
OpenSend == Open /\ Top.kind = "Expression"

\* The running activation moves to `pc` with locals `v` and calls walk.
Call(pc, v, kind, opt, cctx, current) ==
    stack' = Append([stack EXCEPT ![Len(stack)].pc = pc, ![Len(stack)].v = v],
                    Activation(kind, opt, cctx, current, locCounter + 1))
    /\ locCounter' = locCounter + 1

\* As Call, by an activation that dispatches: its variant becomes `kind`.
Dispatch(variant, pc, v, kind, opt, cctx, current) ==
    stack' = Append([stack EXCEPT ![Len(stack)].kind = variant, ![Len(stack)].pc = pc,
                                  ![Len(stack)].v = v],
                    Activation(kind, opt, cctx, current, locCounter + 1))
    /\ locCounter' = locCounter + 1

\* Location of the node the running activation is about to walk.
childLoc == locCounter + 1

\* The running activation returns `b`.
Return(b) ==
    /\ stack' = SubSeq(stack, 1, Len(stack) - 1)
    /\ ret' = b

\* n more non-empty nodes fit into the tree.
Room(n) == nodes + n <= MaxNodes

InitialContext ==
    [target |-> LocalVariable("<returnMethodTemp>", 1), loops |-> 0, rubyBlockId |-> 0,
     nextScope |-> nullptr, breakScope |-> nullptr, blockBreakTarget |-> noVariable,
     rescueScope |-> nullptr, link |-> nullLink, isInsideRubyBlock |-> FALSE]

Init ==
    /\ blocks = freshBlock(freshBlock(<<>>, 0, 0), 0, 0)
    /\ stack = << [kind |-> "buildFor", opt |-> FALSE, pc |-> "afterWalk",
                   cctx |-> InitialContext, current |-> entryBlock, loc |-> 1, v |-> <<>>],
                  Activation("Expression", TRUE, InitialContext, entryBlock, 2) >>
    /\ ret = nullptr
    /\ errors = <<>>
    /\ temporaryCounter = 1
    /\ allocated = <<InitialContext.target>>
    /\ aliases = <<>>
    /\ discoveredUndeclaredFields = <<>>
    /\ resolutions = <<>>
    /\ maxRubyBlockId = 0
    /\ nodes = 0
    /\ locCounter = 2

(***************************************************************************)
(* Leaves                                                                  *)
(***************************************************************************)
LiteralInst == [tag |-> "Literal", value |-> "lit"]

WalkLiteral ==
    /\ Open /\ Room(1)
    /\ blocks' = emplace_back(blocks, Top.current, Top.cctx.target, Top.loc, LiteralInst)
    /\ nodes' = nodes + 1
    /\ Return(Top.current)
    /\ UNCHANGED <<errors, temporaryCounter, allocated, maxRubyBlockId, locCounter, idents>>

WalkEmptyTree ==
    /\ Open /\ Top.opt
    /\ Return(Top.current)
    /\ UNCHANGED <<blocks, errors, temporaryCounter, allocated, maxRubyBlockId, nodes, locCounter, idents>>

(***************************************************************************)
(* Return                                                                  *)
(***************************************************************************)
WalkReturn ==
    /\ Open /\ Room(1)
    /\ LET retSym == newTemporary(temporaryCounter, "returnTemp")
       IN  /\ Dispatch("Return", "afterExpr", [retSym |-> retSym],
                       "Expression", TRUE, withTarget(Top.cctx, retSym), Top.current)
           /\ Allocated(<<retSym>>)
    /\ nodes' = nodes + 1
    /\ UNCHANGED <<blocks, ret, errors, maxRubyBlockId, idents>>

\* ReturnAfterExpr that hands back the block it has just closed.
ReturnAfterExprLive ==
    /\ At("Return", "afterExpr")
    /\ LET cont == ret
           emitted == emplace_back(blocks, cont, Top.cctx.target, Top.loc,
                                   [tag |-> "Return", what |-> Top.v.retSym])
       IN  blocks' = jumpToDead(emitted, cont, Top.loc)
    /\ Return(ret)
    /\ UNCHANGED <<errors, temporaryCounter, allocated, maxRubyBlockId, nodes, locCounter, idents>>

ReturnAfterExpr ==
    /\ At("Return", "afterExpr")
    /\ LET cont == ret
           emitted == emplace_back(blocks, cont, Top.cctx.target, Top.loc,
                                   [tag |-> "Return", what |-> Top.v.retSym])
       IN  blocks' = jumpToDead(emitted, cont, Top.loc)
    /\ Return(deadBlock)
    /\ UNCHANGED <<errors, temporaryCounter, allocated, maxRubyBlockId, nodes, locCounter, idents>>

(***************************************************************************)
(* Next, Break, Retry                                                      *)
(***************************************************************************)
\* scopeJump that reports nothing when the scope is unset.
scopeJumpSilent(bs, errs, from, scope, loc) ==
    IF scope = nullptr
    THEN [blocks |-> unconditionalJump(bs, from, deadBlock, loc), errors |-> errs]
    ELSE [blocks |-> unconditionalJump(bs, from, scope, loc), errors |-> errs]

\* scopeJump that leaves for the dead block whatever the scope.
scopeJumpAlwaysDead(bs, errs, from, scope, loc) ==
    IF scope = nullptr
    THEN [blocks |-> unconditionalJump(bs, from, deadBlock, loc),
          errors |-> beginError(errs, loc, "NoNextScope")]
    ELSE [blocks |-> unconditionalJump(bs, from, deadBlock, loc), errors |-> errs]

\* Jump of a Next/Break/Retry whose scope is `scope`: to the scope, or, with
\* a NoNextScope error, to the dead block.  Yields the blocks and the errors.
scopeJump(bs, errs, from, scope, loc) ==
    IF scope = nullptr
    THEN [blocks |-> unconditionalJump(bs, from, deadBlock, loc),
          errors |-> beginError(errs, loc, "NoNextScope")]
    ELSE [blocks |-> unconditionalJump(bs, from, scope, loc), errors |-> errs]

WalkNext ==
    /\ Open /\ Room(1)
    /\ LET exprSym == newTemporary(temporaryCounter, "nextTemp")
       IN  /\ Dispatch("Next", "afterExpr", [exprSym |-> exprSym],
                       "Expression", TRUE, withTarget(Top.cctx, exprSym), Top.current)
           /\ Allocated(<<exprSym>>)
    /\ nodes' = nodes + 1
    /\ UNCHANGED <<blocks, ret, errors, maxRubyBlockId, idents>>

\* nextBlockReturn carrying the link of the iterator block one level out.
nextBlockReturnOuter(cctx, exprSym) ==
    [tag |-> "BlockReturn", link |-> [cctx.link EXCEPT !.rubyBlockId = @ - 1], what |-> exprSym]

\* The BlockReturn a Next leaves in its continuation inside an iterator block.
nextBlockReturn(cctx, exprSym) == [tag |-> "BlockReturn", link |-> cctx.link, what |-> exprSym]

NextAfterExpr ==
    /\ At("Next", "afterExpr")
    /\ LET cctx == Top.cctx
           afterNext == ret
           inBlock == afterNext # deadBlock /\ cctx.isInsideRubyBlock
           dead == newTemporary(temporaryCounter, "nextTemp")
           emitted == IF inBlock
                      THEN emplace_back(blocks, afterNext, dead, Top.loc,
                                        nextBlockReturn(cctx, Top.v.exprSym))
                      ELSE blocks
           jumped == scopeJump(emitted, errors, afterNext, cctx.nextScope, Top.loc)
       IN  /\ blocks' = jumped.blocks
           /\ errors' = jumped.errors
           /\ Allocated(IF inBlock THEN <<dead>> ELSE <<>>)
    /\ Return(deadBlock)
    /\ UNCHANGED <<maxRubyBlockId, nodes, locCounter, idents>>

WalkBreak ==
    /\ Open /\ Room(1)
    /\ LET exprSym == newTemporary(temporaryCounter, "returnTemp")
       IN  /\ Dispatch("Break", "afterExpr", [exprSym |-> exprSym],
                       "Expression", TRUE, withTarget(Top.cctx, exprSym), Top.current)
           /\ Allocated(<<exprSym>>)
    /\ nodes' = nodes + 1
    /\ UNCHANGED <<blocks, ret, errors, maxRubyBlockId, idents>>

\* Break that assigns the break target from the expression directly.
BreakAfterExprOneAssign ==
    /\ At("Break", "afterExpr")
    /\ LET cctx == Top.cctx
           afterBreak == ret
           assigned == emplace_back(blocks, afterBreak, cctx.blockBreakTarget, Top.loc,
                                    [tag |-> "Ident", what |-> Top.v.exprSym])
           jumped == scopeJump(assigned, errors, afterBreak, cctx.breakScope, Top.loc)
       IN  /\ blocks' = jumped.blocks
           /\ errors' = jumped.errors
           /\ Allocated(<<>>)
    /\ Return(deadBlock)
    /\ UNCHANGED <<maxRubyBlockId, nodes, locCounter, idents>>

BreakAfterExpr ==
    /\ At("Break", "afterExpr")
    /\ LET cctx == Top.cctx
           afterBreak == ret
           blockBreakAssign == newTemporary(temporaryCounter, "blockBreakAssign")
           first == emplace_back(blocks, afterBreak, blockBreakAssign, Top.loc,
                                 [tag |-> "Ident", what |-> Top.v.exprSym])
           second == emplace_back(first, afterBreak, cctx.blockBreakTarget, Top.loc,
                                  [tag |-> "Ident", what |-> blockBreakAssign])
           jumped == scopeJump(second, errors, afterBreak, cctx.breakScope, Top.loc)
       IN  /\ blocks' = jumped.blocks
           /\ errors' = jumped.errors
           /\ Allocated(<<blockBreakAssign>>)
    /\ Return(deadBlock)
    /\ UNCHANGED <<maxRubyBlockId, nodes, locCounter, idents>>

WalkRetry ==
    /\ Open /\ Room(1)
    /\ LET jumped == scopeJump(blocks, errors, Top.current, Top.cctx.rescueScope, Top.loc)
       IN  /\ blocks' = jumped.blocks
           /\ errors' = jumped.errors
    /\ nodes' = nodes + 1
    /\ Return(deadBlock)
    /\ UNCHANGED <<temporaryCounter, allocated, maxRubyBlockId, locCounter, idents>>

(***************************************************************************)
(* If                                                                      *)
(***************************************************************************)
WalkIf ==
    /\ Open /\ Room(1)
    /\ LET ifSym == newTemporary(temporaryCounter, "ifTemp")
       IN  /\ Dispatch("If", "afterCond", [ifSym |-> ifSym, condLoc |-> childLoc],
                       "Expression", TRUE, withTarget(Top.cctx, ifSym), Top.current)
           /\ Allocated(<<ifSym>>)
    /\ nodes' = nodes + 1
    /\ UNCHANGED <<blocks, ret, errors, maxRubyBlockId, idents>>

IfAfterCond ==
    /\ At("If", "afterCond")
    /\ LET cctx == Top.cctx
           cont == ret
           thenBlock == Len(blocks) + 1
           elseBlock == Len(blocks) + 2
           fresh == freshBlock(freshBlock(blocks, cctx.loops, cctx.rubyBlockId),
                               cctx.loops, cctx.rubyBlockId)
       IN  /\ blocks' = conditionalJump(fresh, cont, Top.v.ifSym, thenBlock, elseBlock,
                                        Top.v.condLoc)
           /\ Call("afterThen", [thenBlock |-> thenBlock, elseBlock |-> elseBlock],
                   "Expression", TRUE, cctx, thenBlock)
    /\ UNCHANGED <<ret, errors, temporaryCounter, allocated, maxRubyBlockId, nodes, idents>>

IfAfterThen ==
    /\ At("If", "afterThen")
    /\ Call("afterElse", [thenEnd |-> ret], "Expression", TRUE, Top.cctx, Top.v.elseBlock)
    /\ UNCHANGED <<blocks, ret, errors, temporaryCounter, allocated, maxRubyBlockId, nodes, idents>>

\* ifJoin that hands back the end of the then-arm it has just closed.
ifJoinThenEnd(bs, cctx, thenEnd, elseEnd, loc) ==
    IF thenEnd # deadBlock /\ elseEnd # deadBlock
    THEN LET join == Len(bs) + 1
             fresh == freshBlock(bs, cctx.loops, cctx.rubyBlockId)
         IN  [blocks |-> unconditionalJump(unconditionalJump(fresh, thenEnd, join, loc),
                                           elseEnd, join, loc),
              ret |-> thenEnd]
    ELSE [blocks |-> bs, ret |-> IF thenEnd = deadBlock THEN elseEnd ELSE thenEnd]

\* The block an If returns, with the blocks after its joining jumps.
ifJoin(bs, cctx, thenEnd, elseEnd, loc) ==
    IF thenEnd # deadBlock \/ elseEnd # deadBlock
    THEN IF thenEnd = deadBlock
         THEN [blocks |-> bs, ret |-> elseEnd]
         ELSE IF thenEnd = deadBlock
              THEN [blocks |-> bs, ret |-> thenEnd]
              ELSE LET join == Len(bs) + 1
                       fresh == freshBlock(bs, cctx.loops, cctx.rubyBlockId)
                   IN  [blocks |-> unconditionalJump(
                                       unconditionalJump(fresh, thenEnd, join, loc),
                                       elseEnd, join, loc),
                        ret |-> join]
    ELSE [blocks |-> bs, ret |-> deadBlock]

IfAfterElse ==
    /\ At("If", "afterElse")
    /\ LET joined == ifJoin(blocks, Top.cctx, Top.v.thenEnd, ret, Top.loc)
       IN  /\ blocks' = joined.blocks
           /\ Return(joined.ret)
    /\ UNCHANGED <<errors, temporaryCounter, allocated, maxRubyBlockId, nodes, locCounter, idents>>

(***************************************************************************)
(* While                                                                   *)
(***************************************************************************)
WalkWhile ==
    /\ Open /\ Room(1)
    /\ LET cctx == Top.cctx
           headerBlock == Len(blocks) + 1
           breakNotCalledBlock == Len(blocks) + 2
           continueBlock == Len(blocks) + 3
           fresh == freshBlock(freshBlock(freshBlock(blocks, cctx.loops + 1, cctx.rubyBlockId),
                                          cctx.loops, cctx.rubyBlockId),
                               cctx.loops, cctx.rubyBlockId)
           condSym == newTemporary(temporaryCounter, "whileTemp")
       IN  /\ blocks' = unconditionalJump(fresh, Top.current, headerBlock, Top.loc)
           /\ Dispatch("While", "afterCond",
                       [headerBlock |-> headerBlock, breakNotCalledBlock |-> breakNotCalledBlock,
                        continueBlock |-> continueBlock, condSym |-> condSym,
                        condLoc |-> childLoc],
                       "Expression", TRUE,
                       withLoopScope(withTarget(cctx, condSym), headerBlock, continueBlock, FALSE),
                       headerBlock)
           /\ Allocated(<<condSym>>)
    /\ nodes' = nodes + 1
    /\ UNCHANGED <<ret, errors, maxRubyBlockId, idents>>

WhileAfterCond ==
    /\ At("While", "afterCond")
    /\ LET cctx == Top.cctx
           v == Top.v
           headerEnd == ret
           bodyBlock == Len(blocks) + 1
           fresh == freshBlock(blocks, cctx.loops + 1, cctx.rubyBlockId)
           bodySym == newTemporary(temporaryCounter, "statTemp")
       IN  /\ blocks' = conditionalJump(fresh, headerEnd, v.condSym, bodyBlock,
                                        v.breakNotCalledBlock, v.condLoc)
           /\ Call("afterBody", v, "Expression", TRUE,
                   withBlockBreakTarget(
                       withLoopScope(withTarget(cctx, bodySym), v.headerBlock, v.continueBlock,
                                     FALSE),
                       cctx.target),
                   bodyBlock)
           /\ Allocated(<<bodySym>>)
    /\ UNCHANGED <<ret, errors, maxRubyBlockId, nodes, idents>>

WhileAfterBody ==
    /\ At("While", "afterBody")
    /\ LET v == Top.v
           body == ret
           looped == unconditionalJump(blocks, body, v.headerBlock, Top.loc)
           assigned == synthesizeExpr(looped, v.breakNotCalledBlock, Top.cctx.target, Top.loc,
                                      [tag |-> "Literal", value |-> "nil"])
       IN  blocks' = unconditionalJump(assigned, v.breakNotCalledBlock, v.continueBlock, Top.loc)
    /\ Return(Top.v.continueBlock)
    /\ UNCHANGED <<errors, temporaryCounter, allocated, maxRubyBlockId, nodes, locCounter, idents>>

(***************************************************************************)
(* InsSeq                                                                  *)
(***************************************************************************)
\* What an InsSeq activation remembers of its statements so far: nothing
\* until the walk of one of them returns the dead block, and from then on
\* the graph as that walk left it.
sinceDead(v) ==
    IF v # <<>> THEN v
    ELSE IF ret = deadBlock THEN [graph |-> blocks]
    ELSE <<>>

\* An InsSeq has at least one statement, and no EmptyTree among them.
WalkInsSeq ==
    /\ Open /\ Room(2)
    /\ LET temp == newTemporary(temporaryCounter, "statTemp")
       IN  /\ Dispatch("InsSeq", "afterStat", <<>>,
                       "Expression", FALSE, withTarget(Top.cctx, temp), Top.current)
           /\ Allocated(<<temp>>)
    /\ nodes' = nodes + 1
    /\ UNCHANGED <<blocks, ret, errors, maxRubyBlockId, idents>>

InsSeqNextStat ==
    /\ At("InsSeq", "afterStat") /\ Room(1)
    /\ LET temp == newTemporary(temporaryCounter, "statTemp")
       IN  /\ Call("afterStat", sinceDead(Top.v), "Expression", FALSE,
                   withTarget(Top.cctx, temp), ret)
           /\ Allocated(<<temp>>)
    /\ UNCHANGED <<blocks, ret, errors, maxRubyBlockId, nodes, idents>>

InsSeqExpr ==
    /\ At("InsSeq", "afterStat")
    /\ Call("afterExpr", sinceDead(Top.v), "Expression", TRUE, Top.cctx, ret)
    /\ UNCHANGED <<blocks, ret, errors, temporaryCounter, allocated, maxRubyBlockId, nodes, idents>>

InsSeqAfterExpr ==
    /\ At("InsSeq", "afterExpr")
    /\ Return(ret)
    /\ UNCHANGED <<blocks, errors, temporaryCounter, allocated, maxRubyBlockId, nodes, locCounter, idents>>

(***************************************************************************)
(* Send                                                                    *)
(***************************************************************************)
\* T.absurd with no argument, several arguments, or a Send as argument,
\* lowered as if it were well formed with the receiver as argument.
WalkSendAbsurdMalformedEmits ==
    /\ OpenSend /\ Room(1)
    /\ errors' = beginError(errors, Top.loc, "MalformedTAbsurd")
    /\ blocks' = emplace_back(blocks, Top.current, Top.cctx.target, Top.loc,
                              [tag |-> "TAbsurd", what |-> Top.cctx.target])
    /\ nodes' = nodes + 1
    /\ Return(Top.current)
    /\ UNCHANGED <<temporaryCounter, allocated, maxRubyBlockId, locCounter, idents>>

\* T.absurd with no argument, several arguments, or a Send as argument.
WalkSendAbsurdMalformed ==
    /\ OpenSend /\ Room(1)
    /\ errors' = beginError(errors, Top.loc, "MalformedTAbsurd")
    /\ nodes' = nodes + 1
    /\ Return(Top.current)
    /\ UNCHANGED <<blocks, temporaryCounter, allocated, maxRubyBlockId, locCounter, idents>>

\* T.absurd with one argument that is not a Send.
WalkSendAbsurd ==
    /\ OpenSend /\ Room(2)
    /\ LET temp == newTemporary(temporaryCounter, "statTemp")
       IN  /\ Dispatch("SendAbsurd", "afterArg", [temp |-> temp],
                       "NotSend", FALSE, withTarget(Top.cctx, temp), Top.current)
           /\ Allocated(<<temp>>)
    /\ nodes' = nodes + 1
    /\ UNCHANGED <<blocks, ret, errors, maxRubyBlockId, idents>>

SendAbsurdAfterArg ==
    /\ At("SendAbsurd", "afterArg")
    /\ blocks' = emplace_back(blocks, ret, Top.cctx.target, Top.loc,
                              [tag |-> "TAbsurd", what |-> Top.v.temp])
    /\ Return(ret)
    /\ UNCHANGED <<errors, temporaryCounter, allocated, maxRubyBlockId, nodes, locCounter, idents>>

WalkSend ==
    /\ OpenSend /\ Room(1)
    /\ LET recv == newTemporary(temporaryCounter, "statTemp")
       IN  /\ Dispatch("Send", "afterRecv", [recv |-> recv, args |-> <<>>],
                       "Local", FALSE, withTarget(Top.cctx, recv), Top.current)
           /\ Allocated(<<recv>>)
    /\ nodes' = nodes + 1
    /\ UNCHANGED <<blocks, ret, errors, maxRubyBlockId, idents>>

\* One more argument of the Send is walked (an argument is never an EmptyTree).
SendArg ==
    /\ At("Send", "afterRecv") /\ Room(1)
    /\ LET temp == newTemporary(temporaryCounter, "statTemp")
       IN  /\ Call("afterRecv", [Top.v EXCEPT !.args = Append(@, temp)],
                   "Expression", FALSE, withTarget(Top.cctx, temp), ret)
           /\ Allocated(<<temp>>)
    /\ UNCHANGED <<blocks, ret, errors, maxRubyBlockId, nodes, idents>>

\* Receiver and arguments are walked and the Send has no block.
SendPlain ==
    /\ At("Send", "afterRecv")
    /\ blocks' = emplace_back(blocks, ret, Top.cctx.target, Top.loc,
                              [tag |-> "Send", recv |-> Top.v.recv, fun |-> "fun",
                               args |-> Top.v.args, link |-> nullLink])
    /\ Return(ret)
    /\ UNCHANGED <<errors, temporaryCounter, allocated, maxRubyBlockId, nodes, locCounter, idents>>

\* Parameter lists of the iterator blocks that are lowered (ParsedArg::repeated):
\* |x, *rest|.
BlockArgsInputs == { <<[repeated |-> FALSE], [repeated |-> TRUE]>> }

RECURSIVE bindBlockArgs(_, _, _, _, _, _, _)
\* The loop over blockArgs from index i on (lines 345-373); indices as in the code.
bindBlockArgs(bs, bodyBlock, blockArgs, i, argTemp, idxTmp, loc) ==
    IF i >= Len(blockArgs)
    THEN bs
    ELSE LET arg == blockArgs[i + 1]
             argLoc == LocalVariable("blockArg", i)
             bound ==
                 IF arg.repeated
                 THEN IF i # 0
                      THEN emplace_back(bs, bodyBlock, argLoc, loc,
                                        [tag |-> "Alias", what |-> "untyped"])
                      ELSE emplace_back(bs, bodyBlock, argLoc, loc,
                                        [tag |-> "Ident", what |-> argTemp])
                 ELSE emplace_back(
                          emplace_back(bs, bodyBlock, idxTmp, loc,
                                       [tag |-> "Literal", value |-> i]),
                          bodyBlock, argLoc, loc,
                          [tag |-> "Send", recv |-> argTemp, fun |-> "squareBrackets",
                           args |-> <<idxTmp>>, link |-> nullLink])
         IN  bindBlockArgs(bound, bodyBlock, blockArgs, i + 1, argTemp, idxTmp, loc)

\* Receiver and arguments are walked and the Send has a block.
SendWithBlock ==
    /\ At("Send", "afterRecv")
    /\ \E blockArgs \in BlockArgsInputs :
         LET cctx == Top.cctx
             v == Top.v
             current == ret
             newRubyBlockId == maxRubyBlockId + 1
             link == [fun |-> "fun", rubyBlockId |-> newRubyBlockId]
             sendTemp == newTemporary(temporaryCounter, "blockPreCallTemp")
             restoreSelf == newTemporary(temporaryCounter + 1, "selfRestore")
             sent == emplace_back(blocks, current, sendTemp, Top.loc,
                                  [tag |-> "Send", recv |-> v.recv, fun |-> "fun",
                                   args |-> v.args, link |-> link])
             stashed == synthesizeExpr(sent, current, restoreSelf, noLoc,
                                       [tag |-> "Ident", what |-> selfVariable])
             headerBlock == Len(blocks) + 1
             solveConstraintBlock == Len(blocks) + 2
             postBlock == Len(blocks) + 3
             bodyBlock == Len(blocks) + 4
             fresh == freshBlock(
                          freshBlock(
                              freshBlock(
                                  freshBlock(stashed, cctx.loops + 1, newRubyBlockId),
                                  cctx.loops, cctx.rubyBlockId),
                              cctx.loops, cctx.rubyBlockId),
                          cctx.loops + 1, newRubyBlockId)
             argTemp == newTemporary(temporaryCounter + 2, "blkArg")
             idxTmp == newTemporary(temporaryCounter + 3, "blkArg")
             loaded == emplace_back(
                           emplace_back(fresh, bodyBlock, selfVariable, Top.loc,
                                        [tag |-> "LoadSelf", link |-> link,
                                         what |-> selfVariable]),
                           bodyBlock, argTemp, Top.loc,
                           [tag |-> "LoadYieldParams", link |-> link])
             bound == bindBlockArgs(loaded, bodyBlock, blockArgs, 0, argTemp, idxTmp, Top.loc)
             headed == conditionalJump(bound, headerBlock, blockCall, bodyBlock,
                                       solveConstraintBlock, Top.loc)
             entered == unconditionalJump(headed, current, headerBlock, Top.loc)
             blockrv == newTemporary(temporaryCounter + 4, "blockReturnTemp")
         IN  /\ blocks' = entered
             /\ Call("afterBlockBody",
                     [link |-> link, sendTemp |-> sendTemp, restoreSelf |-> restoreSelf,
                      headerBlock |-> headerBlock,
                      solveConstraintBlock |-> solveConstraintBlock,
                      postBlock |-> postBlock, blockrv |-> blockrv],
                     "Expression", TRUE,
                     withRubyBlockId(
                         withSendAndBlockLink(
                             withLoopScope(
                                 withBlockBreakTarget(withTarget(cctx, blockrv), cctx.target),
                                 headerBlock, postBlock, TRUE),
                             link),
                         newRubyBlockId),
                     bodyBlock)
             /\ Allocated(<<sendTemp, restoreSelf, argTemp, idxTmp, blockrv>>)
    /\ maxRubyBlockId' = maxRubyBlockId + 1
    /\ UNCHANGED <<ret, errors, nodes, idents>>

SendAfterBlockBody ==
    /\ At("Send", "afterBlockBody")
    /\ LET v == Top.v
           blockLast == ret
           dead == newTemporary(temporaryCounter, "blockReturnTemp")
           returned == IF blockLast # deadBlock
                       THEN synthesizeExpr(blocks, blockLast, dead, Top.loc,
                                           [tag |-> "BlockReturn", link |-> v.link,
                                            what |-> v.blockrv])
                       ELSE blocks
           looped == unconditionalJump(returned, blockLast, v.headerBlock, Top.loc)
           solved == unconditionalJump(looped, v.solveConstraintBlock, v.postBlock, Top.loc)
           assigned == emplace_back(solved, v.solveConstraintBlock, Top.cctx.target, Top.loc,
                                    [tag |-> "SolveConstraint", link |-> v.link,
                                     what |-> v.sendTemp])
       IN  /\ blocks' = synthesizeExpr(assigned, v.postBlock, selfVariable, Top.loc,
                                       [tag |-> "Ident", what |-> v.restoreSelf])
           /\ Allocated(IF blockLast # deadBlock THEN <<dead>> ELSE <<>>)
    /\ Return(Top.v.postBlock)
    /\ UNCHANGED <<errors, maxRubyBlockId, nodes, locCounter, idents>>

(***************************************************************************)
(* Local (here: the receiver `self` of the Sends that are lowered)         *)
(***************************************************************************)
WalkLocal ==
    /\ At("Local", "walk")
    /\ blocks' = emplace_back(blocks, Top.current, Top.cctx.target, Top.loc,
                              [tag |-> "Ident", what |-> selfVariable])
    /\ Return(Top.current)
    /\ UNCHANGED <<errors, temporaryCounter, allocated, maxRubyBlockId, nodes, locCounter, idents>>

(***************************************************************************)
(* ConstantLit (here: the StandardError constant a Rescue synthesizes; it  *)
(* has no `original`)                                                      *)
(***************************************************************************)
WalkConstantLit ==
    /\ At("ConstantLit", "walk")
    /\ blocks' = emplace_back(blocks, Top.current, Top.cctx.target, Top.loc,
                              [tag |-> "Alias", what |-> "StandardError"])
    /\ Return(Top.current)
    /\ UNCHANGED <<errors, temporaryCounter, allocated, maxRubyBlockId, nodes, locCounter, idents>>

(***************************************************************************)
(* Rescue                                                                  *)
(***************************************************************************)
\* The local of a rescue case (rescueCase->var).
rescueVar == LocalVariable("e", 0)

\* A Rescue whose sub-walks keep the rescue scope of its caller.
rescueContextKept(cctx, rescueStartBlock) == cctx

\* cctx.rescueScope = rescueStartBlock, in the activation's own copy of the
\* context: the context of every sub-walk of the Rescue.
rescueContext(cctx, rescueStartBlock) == [cctx EXCEPT !.rescueScope = rescueStartBlock]

WalkRescue ==
    /\ Open /\ Room(1)
    /\ LET rescueStartBlock == Len(blocks) + 1
           rescueHandlersBlock == Len(blocks) + 2
           bodyBlock == Len(blocks) + 3
           started == unconditionalJump(
                          freshBlock(blocks, Top.cctx.loops, Top.cctx.rubyBlockId),
                          Top.current, rescueStartBlock, Top.loc)
           cctx == rescueContext(Top.cctx, rescueStartBlock)
           fresh == freshBlock(freshBlock(started, cctx.loops, cctx.rubyBlockId),
                               cctx.loops, cctx.rubyBlockId)
           rescueStartTemp == newTemporary(temporaryCounter, "rescueStartTemp")
           marked == synthesizeExpr(fresh, rescueStartBlock, rescueStartTemp, Top.loc,
                                    [tag |-> "Unanalyzable"])
       IN  /\ blocks' = conditionalJump(marked, rescueStartBlock, rescueStartTemp,
                                        rescueHandlersBlock, bodyBlock, Top.loc)
           /\ Dispatch("Rescue", "afterBody",
                       [cctx |-> cctx, rescueHandlersBlock |-> rescueHandlersBlock],
                       "Expression", TRUE, cctx, bodyBlock)
           /\ Allocated(<<rescueStartTemp>>)
    /\ nodes' = nodes + 1
    /\ UNCHANGED <<ret, errors, maxRubyBlockId, idents>>

RescueAfterBody ==
    /\ At("Rescue", "afterBody")
    /\ LET cctx == Top.v.cctx
           bodyBlock == ret
           elseBody == Len(blocks) + 1
           fresh == freshBlock(blocks, cctx.loops, cctx.rubyBlockId)
       IN  /\ blocks' = unconditionalJump(fresh, bodyBlock, elseBody, Top.loc)
           /\ Call("afterElse", Top.v, "Expression", TRUE, cctx, elseBody)
    /\ UNCHANGED <<ret, errors, temporaryCounter, allocated, maxRubyBlockId, nodes, idents>>

RescueAfterElse ==
    /\ At("Rescue", "afterElse")
    /\ LET cctx == Top.v.cctx
           v == Top.v
           elseBody == ret
           ensureBody == Len(blocks) + 1
           shouldEnsureBlock == Len(blocks) + 2
           fresh == freshBlock(freshBlock(blocks, cctx.loops, cctx.rubyBlockId),
                               cctx.loops, cctx.rubyBlockId)
           joined == unconditionalJump(fresh, elseBody, shouldEnsureBlock, Top.loc)
           rescueEndTemp == newTemporary(temporaryCounter, "rescueEndTemp")
           marked == synthesizeExpr(joined, shouldEnsureBlock, rescueEndTemp, Top.loc,
                                    [tag |-> "Unanalyzable"])
       IN  /\ blocks' = conditionalJump(marked, shouldEnsureBlock, rescueEndTemp,
                                        v.rescueHandlersBlock, ensureBody, Top.loc)
           /\ stack' = [stack EXCEPT ![Len(stack)].pc = "cases",
                                     ![Len(stack)].v =
                                         [cctx |-> cctx,
                                          rescueHandlersBlock |-> v.rescueHandlersBlock,
                                          ensureBody |-> ensureBody,
                                          shouldEnsureBlock |-> shouldEnsureBlock,
                                          caseBody |-> nullptr, exLoc |-> noLoc]]
           /\ Allocated(<<rescueEndTemp>>)
    /\ UNCHANGED <<ret, errors, maxRubyBlockId, nodes, locCounter, idents>>

\* The start of one rescue case up to the walk of its first exception class.
\* `added`: the case lists no class and StandardError is put in.
rescueCaseStart(added) ==
    LET cctx == Top.v.cctx
        v == Top.v
        caseBody == Len(blocks) + 1
        fresh == freshBlock(blocks, cctx.loops, cctx.rubyBlockId)
        exceptionClass == newTemporary(temporaryCounter, "exceptionClassTemp")
    IN  /\ blocks' = emplace_back(fresh, v.rescueHandlersBlock, rescueVar, Top.loc,
                                  [tag |-> "Unanalyzable"])
        /\ Call("afterException",
                [v EXCEPT !.caseBody = caseBody, !.exLoc = childLoc] @@
                    [added |-> added, exceptionClass |-> exceptionClass],
                IF added THEN "ConstantLit" ELSE "Expression", FALSE,
                withTarget(cctx, exceptionClass), v.rescueHandlersBlock)
        /\ Allocated(<<exceptionClass>>)

RescueCaseDefault ==
    /\ At("Rescue", "cases") /\ Room(1)
    /\ rescueCaseStart(TRUE)
    /\ nodes' = nodes + 1
    /\ UNCHANGED <<ret, errors, maxRubyBlockId, idents>>

RescueCaseClasses ==
    /\ At("Rescue", "cases") /\ Room(1)
    /\ rescueCaseStart(FALSE)
    /\ UNCHANGED <<ret, errors, maxRubyBlockId, nodes, idents>>

\* The rest of the loop body over `exceptions` after the walk of one class.
rescueIsaCheck(bs, v, handlers, counter) ==
    LET isaCheck == newTemporary(counter, "isaCheckTemp")
        otherHandlerBlock == Len(bs) + 1
        checked == emplace_back(bs, handlers, isaCheck, v.exLoc,
                                [tag |-> "Send", recv |-> rescueVar, fun |-> "is_a_p",
                                 args |-> <<v.exceptionClass>>, link |-> nullLink])
        fresh == freshBlock(checked, v.cctx.loops, v.cctx.rubyBlockId)
    IN  [blocks |-> conditionalJump(fresh, handlers, isaCheck, v.caseBody, otherHandlerBlock,
                                    v.exLoc),
         rescueHandlersBlock |-> otherHandlerBlock, isaCheck |-> isaCheck]

\* One more class of the same rescue case.
RescueNextException ==
    /\ At("Rescue", "afterException") /\ ~Top.v.added /\ Room(1)
    /\ LET v == Top.v
           checked == rescueIsaCheck(blocks, v, ret, temporaryCounter)
           exceptionClass == newTemporary(temporaryCounter + 1, "exceptionClassTemp")
       IN  /\ blocks' = checked.blocks
           /\ Call("afterException",
                   [v EXCEPT !.rescueHandlersBlock = checked.rescueHandlersBlock,
                             !.exLoc = childLoc, !.exceptionClass = exceptionClass],
                   "Expression", FALSE, withTarget(v.cctx, exceptionClass),
                   checked.rescueHandlersBlock)
           /\ Allocated(<<checked.isaCheck, exceptionClass>>)
    /\ UNCHANGED <<ret, errors, maxRubyBlockId, nodes, idents>>

\* The classes of the case are done; its body is walked.
RescueCaseBody ==
    /\ At("Rescue", "afterException")
    /\ LET v == Top.v
           checked == rescueIsaCheck(blocks, v, ret, temporaryCounter)
       IN  /\ blocks' = checked.blocks
           /\ Call("afterCaseBody",
                   [v EXCEPT !.rescueHandlersBlock = checked.rescueHandlersBlock],
                   "Expression", TRUE, v.cctx, v.caseBody)
           /\ Allocated(<<checked.isaCheck>>)
    /\ UNCHANGED <<ret, errors, maxRubyBlockId, nodes, idents>>

RescueAfterCaseBody ==
    /\ At("Rescue", "afterCaseBody")
    /\ blocks' = unconditionalJump(blocks, ret, Top.v.ensureBody, Top.loc)
    /\ stack' = [stack EXCEPT ![Len(stack)].pc = "cases"]
    /\ UNCHANGED <<ret, errors, temporaryCounter, allocated, maxRubyBlockId, nodes, locCounter, idents>>

\* After the last rescue case: gotoDeadTemp, then the walk of the ensure.
RescueEnsure ==
    /\ At("Rescue", "cases")
    /\ LET v == Top.v
           gotoDeadTemp == newTemporary(temporaryCounter, "gotoDeadTemp")
           marked == synthesizeExpr(blocks, v.rescueHandlersBlock, gotoDeadTemp, Top.loc,
                                    [tag |-> "Literal", value |-> "true"])
           throwAway == newTemporary(temporaryCounter + 1, "throwAwayTemp")
       IN  /\ blocks' = unconditionalJump(marked, v.rescueHandlersBlock, v.ensureBody, Top.loc)
           /\ Call("afterEnsure", v @@ [gotoDeadTemp |-> gotoDeadTemp],
                   "Expression", TRUE, withTarget(v.cctx, throwAway), v.ensureBody)
           /\ Allocated(<<gotoDeadTemp, throwAway>>)
    /\ UNCHANGED <<ret, errors, maxRubyBlockId, nodes, idents>>

\* The end of a Rescue with the successors of its last jump exchanged.
RescueAfterEnsureSwapped ==
    /\ At("Rescue", "afterEnsure")
    /\ LET cctx == Top.v.cctx
           ensureBody == ret
           retBlock == Len(blocks) + 1
           fresh == freshBlock(blocks, cctx.loops, cctx.rubyBlockId)
       IN  /\ blocks' = conditionalJump(fresh, ensureBody, Top.v.gotoDeadTemp, retBlock,
                                        deadBlock, Top.loc)
           /\ Return(retBlock)
    /\ UNCHANGED <<errors, temporaryCounter, allocated, maxRubyBlockId, nodes, locCounter, idents>>

RescueAfterEnsure ==
    /\ At("Rescue", "afterEnsure")
    /\ LET cctx == Top.v.cctx
           ensureBody == ret
           retBlock == Len(blocks) + 1
           fresh == freshBlock(blocks, cctx.loops, cctx.rubyBlockId)
       IN  /\ blocks' = conditionalJump(fresh, ensureBody, Top.v.gotoDeadTemp, deadBlock,
                                        retBlock, Top.loc)
           /\ Return(retBlock)
    /\ UNCHANGED <<errors, temporaryCounter, allocated, maxRubyBlockId, nodes, locCounter, idents>>

(***************************************************************************)
(* Instance and class variables, fields, constants as assignment targets   *)
(***************************************************************************)
\* The symbol table of the method's class, an input: @d is declared, with
\* symbol symD; @u and @@v are declared nowhere.  symC is a constant.
Names == {"@u", "@@v", "@d"}

noSymbol == "<none>"

\* klass.data(ctx)->findMemberTransitive(ctx, name)
findMemberTransitive(name) == IF name = "@d" THEN "symD" ELSE noSymbol

\* what.data(ctx)->name
symbolName(what) == IF what = "symD" THEN "@d" ELSE "C"

\* LocalVariable::exists()
exists(local) == local.name # noVariable.name

\* aliases[what], which inserts an empty local for a symbol that is not there.
aliasesAt(als, what) == IF what \in DOMAIN als THEN als ELSE als @@ (what :> noVariable)

\* global2Local that allocates on every call.
global2LocalUncached(als, counter, what) ==
    LET alias == newTemporary(counter, symbolName(what))
    IN  [local |-> alias, aliases |-> [aliasesAt(als, what) EXCEPT ![what] = alias],
         temps |-> <<alias>>]

\* Yields the local, the aliases afterwards and the temporaries allocated.
global2Local(als, counter, what) ==
    LET inserted == aliasesAt(als, what)
    IN  IF ~exists(inserted[what])
        THEN LET alias == newTemporary(counter, symbolName(what))
             IN  [local |-> alias, aliases |-> [inserted EXCEPT ![what] = alias],
                  temps |-> <<alias>>]
        ELSE [local |-> inserted[what], aliases |-> inserted, temps |-> <<>>]

\* Yields the local and the maps, errors and allocated temporaries afterwards.
unresolvedIdent2Local(als, discovered, errs, counter, name, loc) ==
    LET sym == findMemberTransitive(name)
    IN  IF sym = noSymbol
        THEN IF name \notin DOMAIN discovered
             THEN LET fresh == newTemporary(counter, name)
                  IN  [local |-> fresh, aliases |-> als,
                       discovered |-> discovered @@ (name :> fresh),
                       errors |-> beginError(errs, loc, "UndeclaredVariable"),
                       temps |-> <<fresh>>]
             ELSE [local |-> discovered[name], aliases |-> als, discovered |-> discovered,
                   errors |-> errs, temps |-> <<>>]
        ELSE LET resolved == global2Local(als, counter, sym)
             IN  [local |-> resolved.local, aliases |-> resolved.aliases,
                  discovered |-> discovered, errors |-> errs, temps |-> resolved.temps]

\* The occurrence at `loc` of the symbol or undeclared name `key` got `local`.
Resolved(key, loc, local) ==
    resolutions' = Append(resolutions, [key |-> key, loc |-> loc, local |-> local])

WalkUnresolvedIdent ==
    /\ Open /\ Room(1)
    /\ \E name \in Names :
         LET r == unresolvedIdent2Local(aliases, discoveredUndeclaredFields, errors,
                                        temporaryCounter, name, Top.loc)
             sym == findMemberTransitive(name)
         IN  /\ blocks' = emplace_back(blocks, Top.current, Top.cctx.target, Top.loc,
                                       [tag |-> "Ident", what |-> r.local])
             /\ aliases' = r.aliases
             /\ discoveredUndeclaredFields' = r.discovered
             /\ errors' = r.errors
             /\ Allocated(r.temps)
             /\ Resolved(IF sym = noSymbol THEN name ELSE sym, Top.loc, r.local)
    /\ nodes' = nodes + 1
    /\ Return(Top.current)
    /\ UNCHANGED <<maxRubyBlockId, locCounter>>

WalkField ==
    /\ Open /\ Room(1)
    /\ LET r == global2Local(aliases, temporaryCounter, "symD")
       IN  /\ blocks' = emplace_back(blocks, Top.current, Top.cctx.target, Top.loc,
                                     [tag |-> "Ident", what |-> r.local])
           /\ aliases' = r.aliases
           /\ Allocated(r.temps)
           /\ Resolved("symD", Top.loc, r.local)
    /\ nodes' = nodes + 1
    /\ Return(Top.current)
    /\ UNCHANGED <<errors, maxRubyBlockId, locCounter, discoveredUndeclaredFields>>

(***************************************************************************)
(* Assign                                                                  *)
(***************************************************************************)
\* The left-hand sides of the assignments that are lowered.
AssignTargets ==
    {[kind |-> "ConstantLit", symbol |-> "symC"], [kind |-> "Field", symbol |-> "symD"],
     [kind |-> "Local", local |-> LocalVariable("x", 0)],
     [kind |-> "UnresolvedIdent", name |-> "@u"]}

\* The local of the left-hand side at `loc`, with the maps, errors and
\* allocated temporaries afterwards.
assignLhs(lhs, loc) ==
    IF lhs.kind \in {"ConstantLit", "Field"}
    THEN LET r == global2Local(aliases, temporaryCounter, lhs.symbol)
         IN  [local |-> r.local, aliases |-> r.aliases,
              discovered |-> discoveredUndeclaredFields, errors |-> errors,
              temps |-> r.temps, key |-> lhs.symbol]
    ELSE IF lhs.kind = "Local"
    THEN [local |-> lhs.local, aliases |-> aliases,
          discovered |-> discoveredUndeclaredFields, errors |-> errors, temps |-> <<>>,
          key |-> noSymbol]
    ELSE unresolvedIdent2Local(aliases, discoveredUndeclaredFields, errors,
                               temporaryCounter, lhs.name, loc)
             @@ [key |-> IF findMemberTransitive(lhs.name) = noSymbol
                         THEN lhs.name ELSE findMemberTransitive(lhs.name)]

\* The left-hand side is the node after the Assign, the right-hand side the
\* one after that (it is never an EmptyTree).
WalkAssign ==
    /\ Open /\ Room(2)
    /\ \E lhs \in AssignTargets :
         LET r == assignLhs(lhs, locCounter + 1)
         IN  /\ aliases' = r.aliases
             /\ discoveredUndeclaredFields' = r.discovered
             /\ errors' = r.errors
             /\ Allocated(r.temps)
             /\ resolutions' = IF r.key = noSymbol THEN resolutions
                               ELSE Append(resolutions, [key |-> r.key, loc |-> locCounter + 1,
                                                         local |-> r.local])
             /\ stack' = Append([stack EXCEPT ![Len(stack)].kind = "Assign",
                                              ![Len(stack)].pc = "afterRhs",
                                              ![Len(stack)].v = [lhs |-> r.local]],
                                Activation("Expression", FALSE, withTarget(Top.cctx, r.local),
                                           Top.current, locCounter + 2))
    /\ locCounter' = locCounter + 2
    /\ nodes' = nodes + 1
    /\ UNCHANGED <<blocks, ret, maxRubyBlockId>>

AssignAfterRhs ==
    /\ At("Assign", "afterRhs")
    /\ LET rhsCont == ret
       IN  blocks' = emplace_back(blocks, rhsCont, Top.cctx.target, Top.loc,
                                  [tag |-> "Ident", what |-> Top.v.lhs])
    /\ Return(ret)
    /\ UNCHANGED <<errors, temporaryCounter, allocated, maxRubyBlockId, nodes, locCounter, idents>>

(***************************************************************************)
(* Hash, Array, Cast                                                       *)
(***************************************************************************)
\* The block the next element of a Hash or Array literal is walked on: the
\* one the literal was given, or the continuation of the element before.
threaded == IF Top.pc = "loop" THEN Top.current ELSE ret

\* The Send to Magic that builds the literal, after its synthetic alias.
buildLiteral(bs, b, cctx, loc, counter, fun, locals) ==
    LET magic == newTemporary(counter, "magic")
        aliased == synthesizeExpr(bs, b, magic, noLoc, [tag |-> "Alias", what |-> "Magic"])
    IN  emplace_back(aliased, b, cctx.target, loc,
                     [tag |-> "Send", recv |-> magic, fun |-> fun, args |-> locals,
                      link |-> nullLink])

WalkHash ==
    /\ Open /\ Room(1)
    /\ stack' = [stack EXCEPT ![Len(stack)].kind = "Hash", ![Len(stack)].pc = "loop",
                              ![Len(stack)].v = [locals |-> <<>>]]
    /\ nodes' = nodes + 1
    /\ UNCHANGED <<blocks, ret, errors, temporaryCounter, allocated, maxRubyBlockId, locCounter,
                   idents>>

\* One more pair of the Hash: both temporaries, then the walk of the key.
HashKey ==
    /\ Len(stack) > 0 /\ Top.kind = "Hash" /\ Top.pc \in {"loop", "afterValue"} /\ Room(2)
    /\ LET keyTmp == newTemporary(temporaryCounter, "hashTemp")
           valTmp == newTemporary(temporaryCounter + 1, "hashTemp")
       IN  /\ Call("afterKey", [locals |-> Top.v.locals \o <<keyTmp, valTmp>>,
                                valTmp |-> valTmp],
                   "Expression", FALSE, withTarget(Top.cctx, keyTmp), threaded)
           /\ Allocated(<<keyTmp, valTmp>>)
    /\ UNCHANGED <<blocks, ret, errors, maxRubyBlockId, nodes, idents>>

HashValue ==
    /\ At("Hash", "afterKey")
    /\ Call("afterValue", Top.v, "Expression", FALSE, withTarget(Top.cctx, Top.v.valTmp), ret)
    /\ UNCHANGED <<blocks, ret, errors, temporaryCounter, allocated, maxRubyBlockId, nodes, idents>>

HashBuild ==
    /\ Len(stack) > 0 /\ Top.kind = "Hash" /\ Top.pc \in {"loop", "afterValue"}
    /\ blocks' = buildLiteral(blocks, threaded, Top.cctx, Top.loc, temporaryCounter,
                              "buildHash", Top.v.locals)
    /\ Allocated(<<newTemporary(temporaryCounter, "magic")>>)
    /\ Return(threaded)
    /\ UNCHANGED <<errors, maxRubyBlockId, nodes, locCounter, idents>>

WalkArray ==
    /\ Open /\ Room(1)
    /\ stack' = [stack EXCEPT ![Len(stack)].kind = "Array", ![Len(stack)].pc = "loop",
                              ![Len(stack)].v = [locals |-> <<>>]]
    /\ nodes' = nodes + 1
    /\ UNCHANGED <<blocks, ret, errors, temporaryCounter, allocated, maxRubyBlockId, locCounter,
                   idents>>

ArrayElem ==
    /\ Len(stack) > 0 /\ Top.kind = "Array" /\ Top.pc \in {"loop", "afterElem"} /\ Room(1)
    /\ LET tmp == newTemporary(temporaryCounter, "arrayTemp")
       IN  /\ Call("afterElem", [locals |-> Append(Top.v.locals, tmp)],
                   "Expression", FALSE, withTarget(Top.cctx, tmp), threaded)
           /\ Allocated(<<tmp>>)
    /\ UNCHANGED <<blocks, ret, errors, maxRubyBlockId, nodes, idents>>

ArrayBuild ==
    /\ Len(stack) > 0 /\ Top.kind = "Array" /\ Top.pc \in {"loop", "afterElem"}
    /\ blocks' = buildLiteral(blocks, threaded, Top.cctx, Top.loc, temporaryCounter,
                              "buildArray", Top.v.locals)
    /\ Allocated(<<newTemporary(temporaryCounter, "magic")>>)
    /\ Return(threaded)
    /\ UNCHANGED <<errors, maxRubyBlockId, nodes, locCounter, idents>>

WalkCast ==
    /\ Open /\ Room(2)
    /\ LET tmp == newTemporary(temporaryCounter, "castTemp")
       IN  /\ Dispatch("Cast", "afterArg", [tmp |-> tmp],
                       "Expression", FALSE, withTarget(Top.cctx, tmp), Top.current)
           /\ Allocated(<<tmp>>)
    /\ nodes' = nodes + 1
    /\ UNCHANGED <<blocks, ret, errors, maxRubyBlockId, idents>>

CastAfterArg ==
    /\ At("Cast", "afterArg")
    /\ blocks' = emplace_back(blocks, ret, Top.cctx.target, Top.loc,
                              [tag |-> "Cast", what |-> Top.v.tmp])
    /\ Return(ret)
    /\ UNCHANGED <<errors, temporaryCounter, allocated, maxRubyBlockId, nodes, locCounter, idents>>

(***************************************************************************)
(* Nodes that must not reach the walker, and the catch of walk             *)
(***************************************************************************)
\* The nodes whose lowering raises: the variants earlier passes remove, an
\* Assign whose left-hand side is not one of the four lowered, and a variant
\* without a case of its own.
RaisingNodes ==
    {"UnresolvedConstantLit", "Block", "ClassDef", "MethodDef", "AssignOther", "Expression"}

\* The catch of walk that enqueues the diagnostic and goes on as if the
\* node had been lowered to nothing.
ThrowSwallowed ==
    /\ errors' = beginError(errors, Top.loc, "InternalError")
    /\ stack' = SubSeq(stack, 1, Len(stack) - 1)

\* The catch of walk in the running activation: the diagnostic at the
\* location of its node, and the exception thrown on into its caller.
Throw ==
    /\ errors' = beginError(errors, Top.loc, "InternalError")
    /\ stack' = [SubSeq(stack, 1, Len(stack) - 1) EXCEPT ![Len(stack) - 1].pc = "throw"]

\* The exception of a callee has arrived in the running activation.
Thrown == Len(stack) > 0 /\ Top.pc = "throw"

WalkRaise ==
    /\ Open /\ Room(1)
    /\ \E what \in RaisingNodes : Throw
    /\ nodes' = nodes + 1
    /\ UNCHANGED <<blocks, ret, temporaryCounter, allocated, maxRubyBlockId, locCounter, idents>>

\* An activation of walk an exception passes through; the activation of
\* buildFor, the caller of the outermost walk, is where the model leaves it.
Unwind ==
    /\ Thrown /\ Top.kind # "buildFor"
    /\ Throw
    /\ UNCHANGED <<blocks, ret, temporaryCounter, allocated, maxRubyBlockId, nodes, locCounter,
                   idents>>

(***************************************************************************)
(* Method epilogue (CFGBuilder::buildFor): dead assign of the result, then *)
(* the jump to the dead block.                                             *)
(***************************************************************************)
Epilogue ==
    /\ At("buildFor", "afterWalk")
    /\ LET cont == ret
           emitted == emplace_back(blocks, cont, LocalVariable("<finalReturn>", 0), Top.loc,
                                   [tag |-> "Return", what |-> Top.cctx.target])
       IN  blocks' = jumpToDead(emitted, cont, Top.loc)
    /\ stack' = <<>>
    /\ UNCHANGED <<ret, errors, temporaryCounter, allocated, maxRubyBlockId, nodes, locCounter, idents>>

Done == stack = <<>>

Next ==
    \/ WalkLiteral
    \/ WalkEmptyTree
    \/ WalkReturn
    \/ ReturnAfterExpr
    \/ WalkNext
    \/ NextAfterExpr
    \/ WalkBreak
    \/ BreakAfterExpr
    \/ WalkRetry
    \/ WalkIf
    \/ IfAfterCond
    \/ IfAfterThen
    \/ IfAfterElse
    \/ WalkWhile
    \/ WhileAfterCond
    \/ WhileAfterBody
    \/ WalkInsSeq
    \/ InsSeqNextStat
    \/ InsSeqExpr
    \/ InsSeqAfterExpr
    \/ WalkSendAbsurdMalformed
    \/ WalkSendAbsurd
    \/ SendAbsurdAfterArg
    \/ WalkSend
    \/ SendArg
    \/ SendPlain
    \/ SendWithBlock
    \/ SendAfterBlockBody
    \/ WalkLocal
    \/ WalkConstantLit
    \/ WalkUnresolvedIdent
    \/ WalkField
    \/ WalkAssign
    \/ AssignAfterRhs
    \/ WalkHash
    \/ HashKey
    \/ HashValue
    \/ HashBuild
    \/ WalkArray
    \/ ArrayElem
    \/ ArrayBuild
    \/ WalkCast
    \/ CastAfterArg
    \/ WalkRaise
    \/ Unwind
    \/ WalkRescue
    \/ RescueAfterBody
    \/ RescueAfterElse
    \/ RescueCaseDefault
    \/ RescueCaseClasses
    \/ RescueNextException
    \/ RescueCaseBody
    \/ RescueAfterCaseBody
    \/ RescueEnsure
    \/ RescueAfterEnsure
    \/ Epilogue

Spec == Init /\ [][Next]_vars

(***************************************************************************)
(* The edge primitives on their own: any sequence of calls that respects   *)
(* their precondition (the source is the dead block or has no terminator), *)
(* on CFGs of at most MaxBlocks blocks.                                    *)
(***************************************************************************)
\* Largest number of blocks of a CFG built from the primitives alone.
MaxBlocks == 3

maySource(from) ==
    from = deadBlock \/ (~isCondSet(blocks[from]) /\ blocks[from].bexit.thenb = nullptr
                                                  /\ blocks[from].bexit.elseb = nullptr)

InitJumps ==
    /\ blocks = freshBlock(freshBlock(<<>>, 0, 0), 0, 0)
    /\ stack = <<>>
    /\ ret = nullptr
    /\ errors = <<>>
    /\ temporaryCounter = 1
    /\ allocated = <<InitialContext.target>>
    /\ aliases = <<>>
    /\ discoveredUndeclaredFields = <<>>
    /\ resolutions = <<>>
    /\ maxRubyBlockId = 0
    /\ nodes = 0
    /\ locCounter = 2

JumpsFreshBlock ==
    /\ Len(blocks) < MaxBlocks
    /\ blocks' = freshBlock(blocks, 0, 0)
    /\ UNCHANGED <<stack, ret, errors, temporaryCounter, allocated, maxRubyBlockId, nodes, locCounter, idents>>

JumpsConditionalJump ==
    /\ \E from \in 1 .. Len(blocks) : \E thenb \in 1 .. Len(blocks) : \E elseb \in 1 .. Len(blocks) :
           /\ maySource(from)
           /\ blocks' = conditionalJump(blocks, from, blockCall, thenb, elseb, noLoc)
    /\ UNCHANGED <<stack, ret, errors, temporaryCounter, allocated, maxRubyBlockId, nodes, locCounter, idents>>

JumpsUnconditionalJump ==
    /\ \E from \in 1 .. Len(blocks) : \E to \in 1 .. Len(blocks) :
           /\ maySource(from)
           /\ blocks' = unconditionalJump(blocks, from, to, noLoc)
    /\ UNCHANGED <<stack, ret, errors, temporaryCounter, allocated, maxRubyBlockId, nodes, locCounter, idents>>

JumpsJumpToDead ==
    /\ \E from \in 1 .. Len(blocks) :
           /\ maySource(from)
           /\ blocks' = jumpToDead(blocks, from, noLoc)
    /\ UNCHANGED <<stack, ret, errors, temporaryCounter, allocated, maxRubyBlockId, nodes, locCounter, idents>>

NextJumps ==
    \/ JumpsFreshBlock
    \/ JumpsConditionalJump
    \/ JumpsUnconditionalJump
    \/ JumpsJumpToDead

SpecJumps == InitJumps /\ [][NextJumps]_vars

(***************************************************************************)
(* The scopes of Retry: the lowering of the trees of at most MaxScopeNodes *)
(* nodes built from Rescue, Retry, InsSeq, While, Sends with an iterator   *)
(* block and empty trees.                                                  *)
(***************************************************************************)
\* Largest number of nodes of a tree of Rescue, Retry and the constructs
\* that nest them.
MaxScopeNodes == 4

\* As Init; `nodes`, which Room compares with MaxNodes, starts where it
\* leaves room for MaxScopeNodes nodes.
InitScopes ==
    /\ blocks = freshBlock(freshBlock(<<>>, 0, 0), 0, 0)
    /\ stack = << [kind |-> "buildFor", opt |-> FALSE, pc |-> "afterWalk",
                   cctx |-> InitialContext, current |-> entryBlock, loc |-> 1, v |-> <<>>],
                  Activation("Expression", TRUE, InitialContext, entryBlock, 2) >>
    /\ ret = nullptr
    /\ errors = <<>>
    /\ temporaryCounter = 1
    /\ allocated = <<InitialContext.target>>
    /\ aliases = <<>>
    /\ discoveredUndeclaredFields = <<>>
    /\ resolutions = <<>>
    /\ maxRubyBlockId = 0
    /\ nodes = MaxNodes - MaxScopeNodes
    /\ locCounter = 2

NextScopes ==
    \/ WalkEmptyTree
    \/ WalkRetry
    \/ WalkWhile
    \/ WhileAfterCond
    \/ WhileAfterBody
    \/ WalkInsSeq
    \/ InsSeqNextStat
    \/ InsSeqExpr
    \/ InsSeqAfterExpr
    \/ WalkSend
    \/ SendWithBlock
    \/ SendAfterBlockBody
    \/ WalkLocal
    \/ WalkConstantLit
    \/ WalkRescue
    \/ RescueAfterBody
    \/ RescueAfterElse
    \/ RescueCaseDefault
    \/ RescueCaseClasses
    \/ RescueNextException
    \/ RescueCaseBody
    \/ RescueAfterCaseBody
    \/ RescueEnsure
    \/ RescueAfterEnsure
    \/ Epilogue

SpecScopes == InitScopes /\ [][NextScopes]_vars

(***************************************************************************)
(* Graph vocabulary of the properties                                      *)
(***************************************************************************)
BlockIds == 1 .. Len(blocks)

\* Successors of block b in the CFG bs.
successors(bs, b) == {bs[b].bexit.thenb, bs[b].bexit.elseb} \ {nullptr}

RECURSIVE closure(_, _, _)
\* Blocks reachable from the set `seen` along edges that leave no block of `cut`.
closure(bs, seen, cut) ==
    LET more == UNION {successors(bs, b) : b \in seen \ cut} \ seen
    IN  IF more = {} THEN seen ELSE closure(bs, seen \cup more, cut)

reachable(bs, from) == closure(bs, {from}, {})

\* How often x occurs in the sequence q.
occurrences(q, x) == Cardinality({i \in DOMAIN q : q[i] = x})

exitUnset(b) ==
    /\ ~isCondSet(b)
    /\ b.bexit.thenb = nullptr
    /\ b.bexit.elseb = nullptr

lastIsReturn(b) ==
    /\ b.exprs # <<>>
    /\ b.exprs[Len(b.exprs)].inst.tag = "Return"

\* The terminator of b is the jump of a Next/Break/Retry that found no scope.
strayJump(b) ==
    /\ b.bexit.cond = noVariable
    /\ \E i \in DOMAIN errors : errors[i] = [loc |-> b.bexit.loc, code |-> "NoNextScope"]

\* The terminator of b is the exit of a Rescue's ensure.
ensureExit(b) ==
    /\ b.bexit.cond.name = "gotoDeadTemp"
    /\ b.bexit.thenb = deadBlock
    /\ b.bexit.elseb # deadBlock

intoDead == {b \in BlockIds \ {deadBlock} : deadBlock \in successors(blocks, b)}

\* The blocks of bs with an instruction whose destination is `target`.
writers(bs, target) ==
    {b \in DOMAIN bs : \E i \in DOMAIN bs[b].exprs : bs[b].exprs[i].dest = target}

\* Every path of bs from `from` to `to` has a block that writes `target`.
everyPathWrites(bs, from, to, target) ==
    LET W == writers(bs, target)
    IN  ~(from \notin W /\ to \notin W /\ to \in closure(bs, {from}, W))

\* cs is bs with one more edge, an unconditional one from `from` to `to`.
edgeAdded(bs, cs, from, to, loc) ==
    /\ exitUnset(bs[from])
    /\ cs[from].bexit = [cond |-> noVariable, thenb |-> to, elseb |-> to, loc |-> loc]
    /\ cs[to].backEdges = Append(bs[to].backEdges, from)
    /\ \A b \in DOMAIN bs :
           /\ b # from => cs[b].bexit = bs[b].bexit
           /\ b # to => cs[b].backEdges = bs[b].backEdges

\* cs has the edges of bs.
noEdgeAdded(bs, cs) ==
    \A b \in DOMAIN bs : cs[b].bexit = bs[b].bexit /\ cs[b].backEdges = bs[b].backEdges

\* The step of a Next/Break/Retry at `loc` with continuation `cont` and scope
\* `scope`; `edge` says whether it is to add its edge.
scopeStep(cont, scope, loc, edge) ==
    LET to == IF scope = nullptr THEN deadBlock ELSE scope
    IN  /\ ret' = deadBlock
        /\ errors' = IF scope = nullptr
                     THEN Append(errors, [loc |-> loc, code |-> "NoNextScope"])
                     ELSE errors
        /\ IF edge THEN edgeAdded(blocks, blocks', cont, to, loc)
                   ELSE noEdgeAdded(blocks, blocks')

\* The places <<block, index>> of the instructions with tag `tag`.
placesOf(tag) ==
    {p \in UNION {{<<b, i>> : i \in DOMAIN blocks[b].exprs} : b \in BlockIds} :
        blocks[p[1]].exprs[p[2]].inst.tag = tag}

instAt(p) == blocks[p[1]].exprs[p[2]].inst

\* b is the body block of the iterator block with id `id`.
isBodyBlock(b, id) ==
    /\ blocks[b].rubyBlockId = id
    /\ \E h \in BlockIds :
           /\ blocks[h].bexit.cond = blockCall
           /\ blocks[h].bexit.thenb = b
           /\ blocks[h].rubyBlockId = id

(***************************************************************************)
(* Properties                                                              *)
(***************************************************************************)
(***************************************************************************)
(* C1, as worded: no terminator is set twice, and once the method is       *)
(* lowered every block reachable from the entry block has had its          *)
(* terminator written exactly once.                                        *)
(***************************************************************************)
C1_AsWorded ==
    /\ \A b \in BlockIds : blocks[b].bexitSets <= 1
    /\ Done => \A b \in reachable(blocks, entryBlock) : blocks[b].bexitSets = 1

(***************************************************************************)
(* C1, amended: no terminator is set twice: every block's terminator has   *)
(* been written at most once (every jump made by the walker found its      *)
(* source unset, or its source was the dead block, whose terminator is     *)
(* never written), and once the method is lowered every block reachable    *)
(* from the entry block other than the dead block has had its terminator   *)
(* written exactly once.                                                   *)
(***************************************************************************)
C1_SingleTerminator ==
    /\ \A b \in BlockIds : blocks[b].bexitSets <= 1
    /\ \A b \in BlockIds : blocks[b].bexitSets = 0 <=> exitUnset(blocks[b])
    /\ Done => \A b \in reachable(blocks, entryBlock) \ {deadBlock} : blocks[b].bexitSets = 1

\* A lowered method with a conditional jump whose dead block is reachable.
C1_Witness ==
    /\ Done
    /\ deadBlock \in reachable(blocks, entryBlock)
    /\ Cardinality(reachable(blocks, entryBlock)) >= 6
    /\ \E b \in reachable(blocks, entryBlock) : blocks[b].bexit.thenb # blocks[b].bexit.elseb

(***************************************************************************)
(* C2  Back edges mirror terminators: a block A other than the dead block  *)
(* occurs in the back-edge list of B exactly once if A's terminator names  *)
(* B as thenb or elseb and not at all otherwise; no block jumps            *)
(* conditionally to one and the same block twice.                          *)
(***************************************************************************)
C2_BackEdgeSymmetry ==
    /\ \A a \in BlockIds \ {deadBlock} : \A b \in BlockIds :
           occurrences(blocks[b].backEdges, a) =
               IF b \in successors(blocks, a) THEN 1 ELSE 0
    /\ \A b \in BlockIds : occurrences(blocks[b].backEdges, deadBlock) = 0
    /\ \A a \in BlockIds :
           (isCondSet(blocks[a]) /\ blocks[a].bexit.cond # noVariable)
               => blocks[a].bexit.thenb # blocks[a].bexit.elseb

C2_Witness ==
    \E a \in BlockIds : \E b \in BlockIds :
        /\ isCondSet(blocks[a]) /\ blocks[a].bexit.cond # noVariable
        /\ blocks[a].bexit.thenb = b
        /\ Len(blocks[b].backEdges) >= 2
        /\ occurrences(blocks[b].backEdges, a) = 1

(***************************************************************************)
(* C3  Once the method is lowered and its epilogue is in place, the dead   *)
(* block is the one block without a terminator; the terminator of the dead *)
(* block is never written.                                                 *)
(***************************************************************************)
C3_DeadBlockUnique ==
    /\ exitUnset(blocks[deadBlock]) /\ blocks[deadBlock].bexitSets = 0
    /\ Done => {b \in BlockIds : ~isCondSet(blocks[b])} = {deadBlock}

C3_Witness ==
    /\ Done
    /\ Len(blocks) >= 8
    /\ \E b \in BlockIds : blocks[b].bexit.cond.name = "gotoDeadTemp"
    /\ \E b \in BlockIds \ {deadBlock} : blocks[b].backEdges = <<>> /\ isCondSet(blocks[b])

(***************************************************************************)
(* C4  Every edge into the dead block from another block comes from a      *)
(* block whose last instruction is a Return, or from a Next, Break or      *)
(* Retry without scope whose NoNextScope error was enqueued.               *)
(***************************************************************************)
C4_ReturnBeforeDead ==
    \A b \in intoDead : lastIsReturn(blocks[b]) \/ strayJump(blocks[b])

(***************************************************************************)
(* C4, amended: ... or is the then-edge of the conditional jump on         *)
(* gotoDeadTemp with which a Rescue leaves its ensure.                     *)
(***************************************************************************)
C4_ReturnBeforeDeadOrEnsure ==
    \A b \in intoDead :
        lastIsReturn(blocks[b]) \/ strayJump(blocks[b]) \/ ensureExit(blocks[b])

\* A lowered Rescue around a Retry-less stray jump and the method's Return.
C4_Witness ==
    /\ Done
    /\ \E b \in intoDead : ensureExit(blocks[b])
    /\ \E b \in intoDead : strayJump(blocks[b]) /\ ~lastIsReturn(blocks[b])
    /\ \E b \in intoDead : lastIsReturn(blocks[b])

(***************************************************************************)
(* C5  Whenever walk(ctx, node, current) returns a block other than the    *)
(* dead block, every path from current to the returned block goes through  *)
(* an instruction whose destination is ctx.target.                         *)
(***************************************************************************)
C5_TargetWritten ==
    [][(Len(stack) > 0 /\ Len(stack') < Len(stack) /\ Top.kind # "buildFor" /\ ret' # deadBlock
           /\ stack'[Len(stack')].pc # "throw")
           => everyPathWrites(blocks', Top.current, ret', Top.cctx.target)]_vars

(***************************************************************************)
(* C6  A jump whose source is the dead block leaves the CFG as it is,      *)
(* flags included.                                                         *)
(***************************************************************************)
C6_DeadSourceNoOp ==
    \A t \in BlockIds : \A e \in BlockIds :
        /\ conditionalJump(blocks, deadBlock, blockCall, t, e, noLoc) = blocks
        /\ unconditionalJump(blocks, deadBlock, t, noLoc) = blocks
        /\ jumpToDead(blocks, deadBlock, noLoc) = blocks

(***************************************************************************)
(* C7  jumpToDead(from) and unconditionalJump(from, deadBlock) yield the   *)
(* same CFG, flags included, whatever the CFG and the source block (a      *)
(* source that may jump: the dead block, or a block without terminator).   *)
(***************************************************************************)
C7_JumpToDeadIsUnconditionalJump ==
    \A from \in BlockIds :
        maySource(from)
            => jumpToDead(blocks, from, noLoc) = unconditionalJump(blocks, from, deadBlock, noLoc)

(***************************************************************************)
(* C8  A Next, Break or Retry whose scope is set adds one unconditional    *)
(* edge from its continuation to the scope and enqueues nothing; one whose *)
(* scope is unset enqueues one NoNextScope error at its location and adds  *)
(* one unconditional edge from its continuation to the dead block; either  *)
(* way walk returns the dead block.                                        *)
(***************************************************************************)
C8_ScopeJump ==
    [][/\ At("Next", "afterExpr") => scopeStep(ret, Top.cctx.nextScope, Top.loc, TRUE)
       /\ At("Break", "afterExpr") => scopeStep(ret, Top.cctx.breakScope, Top.loc, TRUE)
       /\ WalkRetry => scopeStep(Top.current, Top.cctx.rescueScope, Top.loc, TRUE)]_vars

(***************************************************************************)
(* C8, amended: ... adds the edge when its continuation is live; when the  *)
(* continuation is the dead block no terminator and no back-edge list      *)
(* changes.  The error of an unset scope is enqueued in both cases.        *)
(***************************************************************************)
C8_ScopeJumpFromLive ==
    [][/\ At("Next", "afterExpr")
            => scopeStep(ret, Top.cctx.nextScope, Top.loc, ret # deadBlock)
       /\ At("Break", "afterExpr")
            => scopeStep(ret, Top.cctx.breakScope, Top.loc, ret # deadBlock)
       /\ WalkRetry
            => scopeStep(Top.current, Top.cctx.rescueScope, Top.loc, Top.current # deadBlock)]_vars

\* Two stray jumps, one from a live block and one from the dead block.
C8_Witness ==
    /\ Done
    /\ \E b \in intoDead : strayJump(blocks[b])
    /\ \E i \in DOMAIN errors :
           /\ errors[i].code = "NoNextScope"
           /\ \A b \in BlockIds : blocks[b].bexit.loc # errors[i].loc

(***************************************************************************)
(* C9  An If allocates a join block exactly when the continuations of both *)
(* arms are live; with exactly one arm dead it returns the continuation of *)
(* the other arm, and with both dead the dead block.                       *)
(***************************************************************************)
C9_JoinIffBothLive ==
    [][At("If", "afterElse") =>
         LET thenEnd == Top.v.thenEnd
             elseEnd == ret
         IN  /\ Len(blocks') = Len(blocks) + 1 <=> (thenEnd # deadBlock /\ elseEnd # deadBlock)
             /\ Len(blocks') \in {Len(blocks), Len(blocks) + 1}
             /\ (thenEnd = deadBlock /\ elseEnd # deadBlock) => ret' = elseEnd
             /\ (thenEnd # deadBlock /\ elseEnd = deadBlock) => ret' = thenEnd
             /\ (thenEnd = deadBlock /\ elseEnd = deadBlock) => ret' = deadBlock]_vars

(***************************************************************************)
(* C10  Every Send with a block has its link L in exactly one              *)
(* LoadYieldParams, which sits in the body block of L (the then-successor  *)
(* of the header, which branches on blockCall), and a BlockReturn in a     *)
(* block with the iterator-block id of L carries L.                        *)
(***************************************************************************)
C10_LinkIdentity ==
    /\ \A id \in 1 .. maxRubyBlockId :
           LET loads == {p \in placesOf("LoadYieldParams") : instAt(p).link.rubyBlockId = id}
           IN  /\ Cardinality(loads) = 1
               /\ \A p \in loads : isBodyBlock(p[1], id)
    /\ \A p \in placesOf("BlockReturn") :
           /\ instAt(p).link.rubyBlockId = blocks[p[1]].rubyBlockId
           /\ instAt(p).link.rubyBlockId \in 1 .. maxRubyBlockId

\* A Next inside the inner of two nested iterator blocks.
C10_Witness ==
    /\ Done
    /\ \E p \in placesOf("BlockReturn") :
           /\ ~blocks[p[1]].exprs[p[2]].isSynthetic
           /\ instAt(p).link.rubyBlockId = 2
    /\ \E p \in placesOf("BlockReturn") : instAt(p).link.rubyBlockId = 1

(***************************************************************************)
(* C11  Any two calls of newTemporary during the lowering of one method,   *)
(* through whichever copy of the context, return locals with different     *)
(* counters: the counters strictly increase in the order of the calls,     *)
(* and the shared counter stands at the one handed out last.               *)
(***************************************************************************)
C11_TemporariesUnique ==
    /\ \A i \in DOMAIN allocated : \A j \in DOMAIN allocated :
           i < j => allocated[i].unique < allocated[j].unique
    /\ allocated[Len(allocated)].unique = temporaryCounter

\* Sibling walks have allocated temporaries of the same name.
C11_Witness ==
    /\ Done
    /\ Len(allocated) >= 4
    /\ \E i \in DOMAIN allocated : \E j \in DOMAIN allocated :
           i < j /\ allocated[i].name = allocated[j].name

\* The UndeclaredVariable diagnostics, in the order they were enqueued.
undeclaredErrors == SelectSeq(errors, LAMBDA e : e.code = "UndeclaredVariable")

\* The occurrences of `key` among the resolutions, as indices.
occurrencesOf(key) == {i \in DOMAIN resolutions : resolutions[i].key = key}

\* The undeclared names resolved so far.
undeclaredResolved ==
    {resolutions[i].key : i \in {j \in DOMAIN resolutions :
                                   /\ resolutions[j].key \in Names
                                   /\ findMemberTransitive(resolutions[j].key) = noSymbol}}

\* C12: over the reads and assignments of instance and class variables,
\* fields and constants of one method, two occurrences resolve to the same
\* local exactly when they are occurrences of the same undeclared name or of
\* the same symbol; and each undeclared name has exactly one
\* UndeclaredVariable diagnostic, at the location of its first occurrence,
\* with no other UndeclaredVariable diagnostic anywhere.
C12_ResolutionUnifies ==
    /\ \A i \in DOMAIN resolutions : \A j \in DOMAIN resolutions :
           resolutions[i].key = resolutions[j].key
               <=> resolutions[i].local = resolutions[j].local
    /\ \A i \in DOMAIN resolutions : exists(resolutions[i].local)
    /\ \A name \in undeclaredResolved :
           LET first == CHOOSE i \in occurrencesOf(name) :
                            \A j \in occurrencesOf(name) : i <= j
           IN  Cardinality({k \in DOMAIN undeclaredErrors :
                               undeclaredErrors[k].loc = resolutions[first].loc}) = 1
    /\ Len(undeclaredErrors) = Cardinality(undeclaredResolved)

\* A method that is done has resolved the same undeclared name twice and a
\* declared symbol as well.
C12_Witness ==
    /\ Done
    /\ \E i \in DOMAIN resolutions : \E j \in DOMAIN resolutions :
           /\ i < j
           /\ resolutions[i].key = resolutions[j].key
           /\ resolutions[i].key \in undeclaredResolved
    /\ \E i \in DOMAIN resolutions : resolutions[i].key \notin Names

\* The step enqueues one more diagnostic, a MalformedTAbsurd.
malformedReported ==
    /\ Len(errors') = Len(errors) + 1
    /\ errors'[Len(errors')].code = "MalformedTAbsurd"

\* C13: a T.absurd Send with no argument, several arguments or a Send as
\* argument enqueues a MalformedTAbsurd diagnostic at the Send, and the step
\* that enqueues it changes no block (no instruction, no new block, no
\* edge) and returns the block it was given as current.  A T.absurd with
\* one argument that is not a Send enqueues nothing, allocates a temporary
\* no earlier allocation returned, walks the argument with that temporary
\* as target from the current block, and then appends to the argument's
\* continuation exactly one instruction, target := TAbsurd(temporary), with
\* the target of the Send, changing nothing else in the graph, and returns
\* that continuation.
C13_Absurd ==
    [][/\ WalkSendAbsurdMalformed => malformedReported
       /\ malformedReported =>
              /\ errors'[Len(errors')].loc = Top.loc
              /\ blocks' = blocks
              /\ stack' = SubSeq(stack, 1, Len(stack) - 1)
              /\ ret' = Top.current
       /\ WalkSendAbsurd =>
              LET temp == stack'[Len(stack)].v.temp
                  arg == stack'[Len(stack')]
              IN  /\ \A i \in DOMAIN allocated : allocated[i] # temp
                  /\ allocated' = Append(allocated, temp)
                  /\ arg.cctx = withTarget(Top.cctx, temp)
                  /\ arg.current = Top.current
                  /\ arg.pc = "walk"
                  /\ errors' = errors
                  /\ blocks' = blocks
       /\ At("SendAbsurd", "afterArg") =>
              /\ DOMAIN blocks' = DOMAIN blocks
              /\ \A b \in DOMAIN blocks : b # ret => blocks'[b] = blocks[b]
              /\ blocks'[ret] = [blocks[ret] EXCEPT !.exprs =
                     Append(@, Binding(Top.cctx.target, Top.loc, FALSE,
                                       [tag |-> "TAbsurd", what |-> Top.v.temp]))]
              /\ errors' = errors
              /\ ret' = ret
              /\ stack' = SubSeq(stack, 1, Len(stack) - 1)]_vars

\* A finished method with both a malformed T.absurd and a lowered one.
C13_Witness ==
    /\ Done
    /\ \E i \in DOMAIN errors : errors[i].code = "MalformedTAbsurd"
    /\ \E b \in DOMAIN blocks : \E i \in DOMAIN blocks[b].exprs :
           blocks[b].exprs[i].inst.tag = "TAbsurd"

\* The activations below the running one that wait for the body of their
\* While or of their iterator block.
bodyFrames ==
    {i \in 1..(Len(stack) - 1) :
        \/ stack[i].kind = "While" /\ stack[i].pc = "afterBody"
        \/ stack[i].kind = "Send" /\ stack[i].pc = "afterBlockBody"}

\* As bodyFrames, with the While activations that wait for their condition.
loopFrames ==
    bodyFrames \cup {i \in 1..(Len(stack) - 1) :
                        stack[i].kind = "While" /\ stack[i].pc = "afterCond"}

innermost(frames) == CHOOSE i \in frames : \A j \in frames : j <= i

\* The block a break out of the loop of activation `frame` goes to.
breakScopeOf(frame) ==
    IF frame.kind = "While" THEN frame.v.continueBlock ELSE frame.v.postBlock

\* After the step, block b ends with the two assignments of a Break whose
\* break target is `target`.
breakAssigned(b, target) ==
    LET exprs == blocks'[b].exprs
        n == Len(exprs)
    IN  /\ n >= Len(blocks[b].exprs) + 2
        /\ exprs[n - 1].dest.name = "blockBreakAssign"
        /\ exprs[n - 1].inst = [tag |-> "Ident", what |-> Top.v.exprSym]
        /\ exprs[n].dest = target
        /\ exprs[n].inst = [tag |-> "Ident", what |-> exprs[n - 1].dest]

\* After the step, the only exit of block b is an unconditional edge to
\* `scope`, which is not the header of the loop of activation `frame`.
breaksTo(b, scope, frame) ==
    /\ blocks'[b].bexit.cond = noVariable
    /\ blocks'[b].bexit.thenb = scope
    /\ blocks'[b].bexit.elseb = scope
    /\ scope # frame.v.headerBlock
    /\ blocks'[b].bexitSets = 1

\* C14 as worded: every Break inside the body of a While or of an iterator
\* block ends its continuation with blockBreakAssign := Ident(returnTemp)
\* and target := Ident(blockBreakAssign), target being the target of the
\* innermost While or block Send whose body holds the Break, and the only
\* exit of the continuation is an unconditional edge to the break scope of
\* that loop, not to its header.
C14_BreakLeavesLoop ==
    [][At("Break", "afterExpr") /\ bodyFrames # {} =>
          LET loop == stack[innermost(bodyFrames)]
          IN  /\ breakAssigned(ret, loop.cctx.target)
              /\ breaksTo(ret, breakScopeOf(loop), loop)]_vars

\* C14, amended: every Break inside the body of a While or of an iterator
\* block appends to the continuation of its expression the two assignments
\* blockBreakAssign := Ident(returnTemp) and target := Ident(blockBreakAssign),
\* target being the target of the innermost While or block Send whose body
\* holds the Break; and when that continuation is not the dead block its
\* only exit is an unconditional edge to the continue block or post block
\* of the innermost While or block Send that holds the Break in its body or
\* in its condition, never to the header of either loop.
C14_BreakLeavesLoopFromLive ==
    [][At("Break", "afterExpr") /\ bodyFrames # {} =>
          LET loop == stack[innermost(bodyFrames)]
              inner == stack[innermost(loopFrames)]
          IN  /\ breakAssigned(ret, loop.cctx.target)
              /\ ret # deadBlock =>
                     /\ breaksTo(ret, breakScopeOf(inner), inner)
                     /\ breakScopeOf(inner) # loop.v.headerBlock
              /\ ret = deadBlock => blocks'[deadBlock].bexit = blocks[deadBlock].bexit]_vars

\* A finished method in which a Break in a loop body left its live
\* continuation with the two assignments and an edge that is still there.
C14_Witness ==
    /\ Done
    /\ \E b \in DOMAIN blocks :
           LET exprs == blocks[b].exprs
               n == Len(exprs)
           IN  /\ b # deadBlock
               /\ n >= 2
               /\ exprs[n - 1].dest.name = "blockBreakAssign"
               /\ exprs[n].inst = [tag |-> "Ident", what |-> exprs[n - 1].dest]
               /\ exprs[n].dest # noVariable
               /\ blocks[b].bexit.cond = noVariable
               /\ blocks[b].bexit.thenb # deadBlock

\* In the graph bs, block a has an edge to block b.
edge(bs, a, b) == isCondSet(bs[a]) /\ b \in {bs[a].bexit.thenb, bs[a].bexit.elseb}

\* The blocks of bs with an edge to block b.
predecessors(bs, b) == {a \in DOMAIN bs : edge(bs, a, b)}

\* After the step, block b ends in the conditional jump of a Rescue on
\* gotoDeadTemp, to the dead block or else to the block walk returns.
endsRescue(b) ==
    /\ blocks'[b].bexit.cond = Top.v.gotoDeadTemp
    /\ Top.v.gotoDeadTemp.name = "gotoDeadTemp"
    /\ blocks'[b].bexit.thenb = deadBlock
    /\ blocks'[b].bexit.elseb = ret'

\* Whenever a block ends in a jump on a gotoDeadTemp, that block is the only
\* one with an edge to the else-successor of the jump.
rescueReturnPrivate ==
    \A b \in DOMAIN blocks :
        blocks[b].bexit.cond.name = "gotoDeadTemp" =>
            /\ predecessors(blocks, blocks[b].bexit.elseb) = {b}
            /\ blocks[blocks[b].bexit.elseb].backEdges = <<b>>

assignments(bs, target) ==
    UNION {{bs[b].exprs[i].inst : i \in {j \in DOMAIN bs[b].exprs :
                                            bs[b].exprs[j].dest = target}} :
           b \in DOMAIN bs}

\* C16: when the lowering of a Rescue ends with the conditional jump on
\* gotoDeadTemp, every path from the start block of the Rescue to the block
\* that ends in that jump goes through an assignment of gotoDeadTemp: the
\* literal true in the last rescue_handlers block, and the literal false on
\* the paths through should_ensure and through the case bodies.
C16_GotoDeadAssigned ==
    [][At("Rescue", "afterEnsure") /\ ret # deadBlock =>
          /\ everyPathWrites(blocks', Top.v.cctx.rescueScope, ret, Top.v.gotoDeadTemp)
          /\ [tag |-> "Literal", value |-> "false"]
                 \in assignments(blocks', Top.v.gotoDeadTemp)
          /\ Top.v.rescueHandlersBlock # deadBlock =>
                 \E i \in DOMAIN blocks'[Top.v.rescueHandlersBlock].exprs :
                     /\ blocks'[Top.v.rescueHandlersBlock].exprs[i].dest = Top.v.gotoDeadTemp
                     /\ blocks'[Top.v.rescueHandlersBlock].exprs[i].inst =
                            [tag |-> "Literal", value |-> "true"]]_vars

\* The InsSeq activations one of whose statements has returned the dead
\* block, while a later statement or the final expression is being walked.
pastDead == {i \in DOMAIN stack : stack[i].kind = "InsSeq" /\ stack[i].v # <<>>}

\* C17: while the statements and the final expression of an InsSeq are
\* walked after a statement whose walk returned the dead block, the blocks
\* reachable from the block that was current when the InsSeq walk started
\* are blocks that existed when that statement returned, they are the ones
\* that were reachable then, and none of them has got an exit or a
\* successor it did not have then: nothing the later statements allocate
\* and no edge they add is reachable from the start.
C17_DeadStatementsUnreachable ==
    \A i \in pastDead :
        LET start == stack[i].current
            before == stack[i].v.graph
            now == reachable(blocks, start)
        IN  /\ now \subseteq DOMAIN before
            /\ now = reachable(before, start)
            /\ \A b \in now : blocks[b].bexit = before[b].bexit

\* After a statement of an InsSeq that began on a live block returned the
\* dead block, a later statement has allocated blocks and given one of them
\* an exit, and the walk of a further statement or of the final expression
\* has started on a continuation that is not the dead block.
C17_Witness ==
    \E i \in pastDead :
        /\ stack[i].current # deadBlock
        /\ Len(blocks) > Len(stack[i].v.graph)
        /\ \E b \in DOMAIN blocks : b > Len(stack[i].v.graph) /\ isCondSet(blocks[b])
        /\ i < Len(stack)
        /\ stack[i + 1].current \notin {deadBlock, stack[i].current}

\* The InternalError diagnostics, in the order they were enqueued.
internalErrors == SelectSeq(errors, LAMBDA e : e.code = "InternalError")

\* C18: the walk of a bare Block, ClassDef, MethodDef or UnresolvedConstantLit,
\* or of an Assign whose left-hand side is none of the four lowered, at any
\* depth, enqueues an InternalError at the location of that node and
\* changes no block; from then on the exception is in every state either on
\* its way through an enclosing activation of walk or out of the outermost
\* one, in its caller: each step takes it one activation further out and
\* changes neither the graph nor the block last returned, and once it has
\* left the outermost walk nothing more happens, so the method is never
\* done and no continuation is returned for it.
C18_InternalErrorAborts ==
    /\ [][/\ WalkRaise =>
                 /\ errors' = Append(errors, [loc |-> Top.loc, code |-> "InternalError"])
                 /\ blocks' = blocks
                 /\ Thrown'
          /\ Thrown =>
                 /\ Len(stack) > 1
                 /\ Len(stack') = Len(stack) - 1
                 /\ Thrown'
                 /\ blocks' = blocks
                 /\ ret' = ret]_vars
    /\ [](internalErrors # <<>> => Thrown)

\* The exception raised two activations deep has left the outermost walk.
C18_Witness ==
    /\ Thrown
    /\ Top.kind = "buildFor"
    /\ Len(internalErrors) >= 3
    /\ Len(blocks) > 2

\* walk may be entered on block b of the graph bs: b has no terminator, or
\* it is the dead block.
notFinalized(bs, b) == ~isCondSet(bs[b]) \/ b = deadBlock

\* The step is the return of a walk to its caller.
walkReturns ==
    /\ Len(stack) > 1
    /\ stack' = SubSeq(stack, 1, Len(stack) - 1)

\* C19: from an outermost walk started on a block without terminator, every
\* activation of walk, for every node at every depth, is entered on a block
\* that has no terminator or is the dead block, and every block a walk
\* returns to its caller is, when it is returned, the dead block or a block
\* without terminator.
C19_CurrentNotFinalized ==
    /\ [](\A i \in DOMAIN stack :
              stack[i].pc = "walk" => notFinalized(blocks, stack[i].current))
    /\ [][walkReturns => notFinalized(blocks', ret')]_vars

\* A walk nested in two others is entered on a block that is neither the
\* entry block nor the dead block, in a graph in which some blocks have
\* their terminator already.
C19_Witness ==
    /\ Len(stack) >= 4
    /\ Top.pc = "walk"
    /\ Top.current \notin {entryBlock, deadBlock}
    /\ Cardinality({b \in BlockIds : isCondSet(blocks[b])}) >= 3

\* In the graph bs the last instruction of block b assigns `target`, and it
\* is the nil literal of break_not_called or the second assignment of a
\* Break.
endsAssigning(bs, b, target) ==
    LET exprs == bs[b].exprs
        last == exprs[Len(exprs)]
    IN  /\ exprs # <<>>
        /\ last.dest = target
        /\ \/ last.inst = [tag |-> "Literal", value |-> "nil"]
           \/ /\ last.inst.tag = "Ident"
              /\ last.inst.what.name = "blockBreakAssign"

\* C20: when the lowering of a While ends, every block with an edge into
\* its continue block ends in an assignment of the target of the While:
\* the nil literal in break_not_called, or the second assignment of a
\* Break, be the Break in the body or in the condition of the loop.
C20_ContinueAssigned ==
    [][At("While", "afterBody") =>
          /\ Top.v.breakNotCalledBlock \in predecessors(blocks', Top.v.continueBlock)
          /\ \A b \in predecessors(blocks', Top.v.continueBlock) :
                 endsAssigning(blocks', b, Top.cctx.target)]_vars

\* The rescue scope activation j of the stack is in: the rescue_start block
\* of the innermost Rescue among the activations that called it, and none
\* when no Rescue is among them.
rescueScopeAt(j) ==
    LET around == {i \in 1..(j - 1) : stack[i].kind = "Rescue"}
    IN  IF around = {} THEN nullptr ELSE stack[innermost(around)].v.cctx.rescueScope

\* Every activation has as rescue scope the rescue_start block of the
\* innermost Rescue around it, or none; the scope a Rescue gives to its
\* sub-walks is the block that ends in the jump on its rescueStartTemp, and
\* no two Rescue activations give the same.
rescueScoped ==
    /\ \A j \in DOMAIN stack : stack[j].cctx.rescueScope = rescueScopeAt(j)
    /\ \A i \in DOMAIN stack :
           stack[i].kind = "Rescue" =>
               LET start == stack[i].v.cctx.rescueScope
               IN  /\ start \in BlockIds \ {entryBlock, deadBlock}
                   /\ blocks[start].bexit.cond.name = "rescueStartTemp"
                   /\ \A k \in DOMAIN stack :
                          (k # i /\ stack[k].kind = "Rescue")
                              => stack[k].v.cctx.rescueScope # start

\* C21 as worded: the rescue scope of a Rescue is in effect in exactly its
\* sub-walks (body, else, exception classes, case bodies, ensure, and the
\* loops and iterator blocks nested in them), a nested Rescue replacing it
\* in its own sub-walks only; a Retry walked there enqueues nothing and
\* adds an unconditional edge from its current block to the rescue_start
\* block of the innermost Rescue around it; a Retry with no Rescue around
\* it, also one walked after a Rescue has returned, has no rescue scope and
\* enqueues NoNextScope at its location.
C21_RetryScope ==
    /\ []rescueScoped
    /\ [][WalkRetry =>
              LET scope == rescueScopeAt(Len(stack))
              IN  /\ Top.cctx.rescueScope = scope
                  /\ ret' = deadBlock
                  /\ scope = nullptr =>
                         errors' = Append(errors, [loc |-> Top.loc, code |-> "NoNextScope"])
                  /\ scope # nullptr =>
                         /\ errors' = errors
                         /\ edgeAdded(blocks, blocks', Top.current, scope, Top.loc)]_vars

\* C21, amended: as C21_RetryScope, where the Retry adds its edge to the
\* rescue_start block when its current block is not the dead block, and
\* changes no terminator and no back-edge list when it is; a Retry without
\* rescue scope likewise adds its edge to the dead block from a current
\* block that is not the dead block.
C21_RetryScopeFromLive ==
    /\ []rescueScoped
    /\ [][WalkRetry =>
              /\ Top.cctx.rescueScope = rescueScopeAt(Len(stack))
              /\ scopeStep(Top.current, rescueScopeAt(Len(stack)), Top.loc,
                           Top.current # deadBlock)]_vars

\* A finished method in which a Retry nested in a Rescue got its edge to
\* the rescue_start block, and a Retry walked after a Rescue had returned
\* was reported.
C21_Witness ==
    /\ Done
    /\ \E a \in BlockIds : \E b \in BlockIds :
           /\ blocks[b].bexit.cond.name = "rescueStartTemp"
           /\ blocks[a].bexit.cond = noVariable
           /\ blocks[a].bexit.thenb = b
           /\ Len(blocks[b].backEdges) >= 2
           /\ \E i \in DOMAIN errors :
                  /\ errors[i].code = "NoNextScope"
                  /\ errors[i].loc > blocks[b].bexit.loc

=============================================================================
